---- MODULE Spec2Model ----
(***************************************************************************)
(* Market Lens: the client-side cache / failure-memoization / retry /      *)
(* fallback layer between the UI and the financial-data API.               *)
(*                                                                         *)
(*  SpecCache  the cache service over localStorage (services/cache.ts,     *)
(*             utils/stock-quote-cache.ts) and the cache-first prefix of   *)
(*             the three fetch paths, driven by an arbitrary caller.       *)
(*  SpecStored the same cache service over a storage that holds leftovers *)
(*             of earlier sessions, among them texts that are no envelope. *)
(*  SpecMeta   the diagnostic accessor getCacheMetadata next to the writers.*)
(*  SpecKeys   the success and failure writers of one category over        *)
(*             symbols that may themselves start with "failed-".           *)
(*  SpecErr    the HTTP error classifier (utils/stock-api-errors.ts).      *)
(*  SpecMsg    the user messages per status (utils/api-error-cases.ts).    *)
(*  Spec       the chart view: useStockHistory + useStockQuote under SWR,  *)
(*             the retry policy and the 402 fallback (StockChart).         *)
(*  SpecHist   the end of fetchHistoricalData on every 200 body: the       *)
(*             validation and the transform of the historical series.      *)
(*  SpecClear  the chart view next to the callers that clear the cache.    *)
(*  SpecSearch the search form: useStockSearch under SWR with the retry    *)
(*             settings of cacheConfig.swr.                                *)
(***************************************************************************)
EXTENDS Integers, Sequences, FiniteSets, TLC

VARIABLES
    now,        \* Date.now(), epoch milliseconds
    ticks,      \* number of clock advances so far (bounded)
    storage,    \* localStorage: key string -> stored text
    quotaFull,  \* TRUE while localStorage.setItem throws (quota / disabled)
    lastOp,     \* the last cache-service call and what it returned
    setAt,      \* history: per key, the last setCache on it (clock, data, stored or
                \* not), the one before it, and the number of setCache calls
                \* since the key was cleared
    writes,     \* number of cache writes so far (bounded)
    cat,        \* SpecCache: the cache category the callers of this run use
    input,      \* SpecErr: the arguments of the call under check
    output,     \* SpecErr: what the call threw
    view,       \* Spec: "chart" (StockChart) or "quote" (useStockQuote mounted alone)
    apiKey,     \* Spec: TRUE iff VITE_FMP_API_KEY is configured
    selectedStock,  \* SearchContext.selectedStock ("" = none, chart unmounted)
    keyRef,     \* per hook, the symbol of the SWR key it is subscribed to ("" = null key)
    permanentlyFailedStocks,  \* per hook module, its in-memory Set
    swrCache,   \* SWR cache: key -> [data, error, isLoading]
    FETCH,      \* SWR dedup marker: key -> [state, doneAt]
    requests,   \* fetcher calls not yet settled, in start order
    timers,     \* pending retry timers, in creation order
    sent,       \* history: number of network requests issued so far (bounded)
    answers,    \* history: per key, the [status, out] pairs of the answers so far
    searchQuery \* SpecSearch: the text the search form passes to useStockSearch

cacheVars == <<now, ticks, storage, quotaFull, lastOp, setAt, writes, cat>>

errVars == <<input, output>>

hookVars == <<view, apiKey, selectedStock, keyRef, permanentlyFailedStocks,
              swrCache, FETCH, requests, timers, sent, answers, searchQuery>>

vars == <<now, ticks, storage, quotaFull, lastOp, setAt, writes, cat, input, output,
          view, apiKey, selectedStock, keyRef, permanentlyFailedStocks,
          swrCache, FETCH, requests, timers, sent, answers, searchQuery>>

(***************************************************************************)
(* Bounds of the model.                                                    *)
(***************************************************************************)
MaxTicks == 3
MaxWrites == 2

(***************************************************************************)
(* config/cache.ts                                                         *)
(***************************************************************************)
keyPrefix == "market-lens"

HourMs == 60 * 60 * 1000

CacheCategories ==
    {"stockSearch", "stockDetails", "stockHistory1Hour", "stockHistory1Day",
     "stockHistory1Year", "companyProfile"}

durations(type) ==
    CASE type = "stockSearch"       -> 24 * HourMs
      [] type = "stockDetails"      -> 4 * HourMs
      [] type = "stockHistory1Hour" -> 2 * HourMs
      [] type = "stockHistory1Day"  -> 6 * HourMs
      [] type = "stockHistory1Year" -> 24 * HourMs
      [] type = "companyProfile"    -> 7 * 24 * HourMs

(***************************************************************************)
(* JavaScript values, JSON text and localStorage.                          *)
(* A stored text is either JSON text (kind "json", carrying the parsed     *)
(* value) or text JSON.parse rejects (kind "garbage").  A JSON object is a *)
(* TLA+ record; an object key whose value is undefined is dropped by       *)
(* JSON.stringify, and destructuring a missing key yields undefined.       *)
(***************************************************************************)
Undefined == [t |-> "undefined"]
Null == [t |-> "null"]

JSONstringifyEnvelope(data, timestamp) ==
    IF data = Undefined
    THEN [kind |-> "json", hasData |-> FALSE, data |-> Undefined,
          hasTimestamp |-> TRUE, timestamp |-> timestamp]
    ELSE [kind |-> "json", hasData |-> TRUE, data |-> data,
          hasTimestamp |-> TRUE, timestamp |-> timestamp]

\* JSON.parse followed by the destructuring  const { data, timestamp } = ...
\* ok = FALSE when JSON.parse (or the destructuring) throws.
JSONparseEnvelope(text) ==
    IF text.kind = "json"
    THEN [ok |-> TRUE,
          data |-> IF text.hasData THEN text.data ELSE Undefined,
          hasTimestamp |-> text.hasTimestamp,
          timestamp |-> IF text.hasTimestamp THEN text.timestamp ELSE 0]
    ELSE [ok |-> FALSE, data |-> Undefined, hasTimestamp |-> FALSE, timestamp |-> 0]

hasItem(st, key) == key \in DOMAIN st

removeItem(st, key) == [k \in DOMAIN st \ {key} |-> st[k]]

\* mutant: a key that is already stored keeps its text
putItem_KeepExisting(st, key, text) ==
    [k \in DOMAIN st \cup {key} |-> IF k = key /\ key \notin DOMAIN st THEN text ELSE st[k]]

putItem(st, key, text) ==
    [k \in DOMAIN st \cup {key} |-> IF k = key THEN text ELSE st[k]]

\* mutant: a write that throws has already replaced the text of the key
setItem_PartialWrite(st, full, key, text) ==
    IF full THEN [thrown |-> TRUE, st |-> putItem(st, key, [kind |-> "garbage"])]
    ELSE [thrown |-> FALSE, st |-> putItem(st, key, text)]

\* localStorage.setItem: throws (thrown = TRUE, nothing stored) while the quota is full
setItem(st, full, key, text) ==
    IF full THEN [thrown |-> TRUE, st |-> st]
    ELSE [thrown |-> FALSE, st |-> putItem(st, key, text)]

startsWith(s, prefix) ==
    /\ Len(s) >= Len(prefix)
    /\ SubSeq(s, 1, Len(prefix)) = prefix

(***************************************************************************)
(* services/cache.ts                                                       *)
(* Every operation takes the storage and the clock and returns its result  *)
(* (ret) together with the storage it leaves (st).                         *)
(***************************************************************************)
buildKey(type, identifier) == keyPrefix \o "-" \o type \o "-" \o identifier

\* mutant: an entry exactly as old as the duration already counts as expired
isExpired_AtDuration(t, parsed, duration) ==
    IF parsed.hasTimestamp THEN t - parsed.timestamp >= duration ELSE FALSE

\* Date.now() - timestamp > duration; with timestamp undefined the difference
\* is NaN and the comparison is false
isExpired(t, parsed, duration) ==
    IF parsed.hasTimestamp THEN t - parsed.timestamp > duration ELSE FALSE

\* mutant: an expired entry is reported but left in storage
hasValidCache_NoEviction(st, t, type, identifier) ==
    LET key == buildKey(type, identifier)
    IN  IF ~hasItem(st, key) THEN [ret |-> FALSE, st |-> st]
        ELSE LET parsed == JSONparseEnvelope(st[key])
             IN  IF ~parsed.ok THEN [ret |-> FALSE, st |-> st]
                 ELSE [ret |-> ~isExpired(t, parsed, durations(type)), st |-> st]

hasValidCache(st, t, type, identifier) ==
    LET key == buildKey(type, identifier)
        duration == durations(type)
    IN  IF ~hasItem(st, key) THEN [ret |-> FALSE, st |-> st]
        ELSE LET parsed == JSONparseEnvelope(st[key])
             IN  IF ~parsed.ok THEN [ret |-> FALSE, st |-> st]
                 ELSE IF isExpired(t, parsed, duration)
                      THEN [ret |-> FALSE, st |-> removeItem(st, key)]
                      ELSE [ret |-> TRUE, st |-> st]

\* mutant: the parsed envelope is returned instead of its data
getCache_ReturnsEnvelope(st, t, type, identifier) ==
    LET key == buildKey(type, identifier)
    IN  IF ~hasItem(st, key) THEN [ret |-> Null, st |-> st]
        ELSE LET parsed == JSONparseEnvelope(st[key])
                 duration == durations(type)
             IN  IF ~parsed.ok THEN [ret |-> Null, st |-> st]
                 ELSE IF isExpired(t, parsed, duration)
                      THEN [ret |-> Null, st |-> removeItem(st, key)]
                      ELSE [ret |-> [data |-> parsed.data, timestamp |-> parsed.timestamp],
                            st |-> st]

getCache(st, t, type, identifier) ==
    LET key == buildKey(type, identifier)
    IN  IF ~hasItem(st, key) THEN [ret |-> Null, st |-> st]
        ELSE LET parsed == JSONparseEnvelope(st[key])
                 duration == durations(type)
             IN  IF ~parsed.ok THEN [ret |-> Null, st |-> st]
                 ELSE IF isExpired(t, parsed, duration)
                      THEN [ret |-> Null, st |-> removeItem(st, key)]
                      ELSE [ret |-> parsed.data, st |-> st]

\* Date.now() - undefined
NaN == [t |-> "NaN"]

\* mutant: the metadata of an expired entry is not reported; the entry is removed
getCacheMetadata_Evicts(st, t, type, identifier) ==
    LET key == buildKey(type, identifier)
        duration == durations(type)
    IN  IF ~hasItem(st, key) THEN [ret |-> Null, st |-> st]
        ELSE LET parsed == JSONparseEnvelope(st[key])
             IN  IF ~parsed.ok THEN [ret |-> Null, st |-> st]
                 ELSE IF ~parsed.hasTimestamp
                      THEN [ret |-> [age |-> NaN, remaining |-> NaN, timestamp |-> Undefined],
                            st |-> st]
                 ELSE IF isExpired(t, parsed, duration)
                      THEN [ret |-> Null, st |-> removeItem(st, key)]
                 ELSE [ret |-> [age |-> t - parsed.timestamp,
                                remaining |-> duration - (t - parsed.timestamp),
                                timestamp |-> parsed.timestamp],
                       st |-> st]

getCacheMetadata(st, t, type, identifier) ==
    LET key == buildKey(type, identifier)
        duration == durations(type)
    IN  IF ~hasItem(st, key) THEN [ret |-> Null, st |-> st]
        ELSE LET parsed == JSONparseEnvelope(st[key])
             IN  IF ~parsed.ok THEN [ret |-> Null, st |-> st]
                 ELSE IF ~parsed.hasTimestamp
                      THEN [ret |-> [age |-> NaN, remaining |-> NaN, timestamp |-> Undefined],
                            st |-> st]
                 ELSE [ret |-> [age |-> t - parsed.timestamp,
                                remaining |-> duration - (t - parsed.timestamp),
                                timestamp |-> parsed.timestamp],
                       st |-> st]

setCache(st, t, full, type, identifier, data) ==
    LET key == buildKey(type, identifier)
        w == setItem(st, full, key, JSONstringifyEnvelope(data, t))
    IN  [ret |-> Undefined, st |-> w.st]

clearCache(st, type, identifier) ==
    [ret |-> Undefined, st |-> removeItem(st, buildKey(type, identifier))]

\* mutant: the whole storage is cleared
clearAllCache_ClearStorage(st) ==
    [ret |-> Undefined, st |-> [k \in {} |-> st[k]]]

clearAllCache(st) ==
    [ret |-> Undefined,
     st |-> [k \in {x \in DOMAIN st : ~startsWith(x, keyPrefix)} |-> st[k]]]

(***************************************************************************)
(* utils/stock-quote-cache.ts                                              *)
(***************************************************************************)
failedId(symbol) == "failed-" \o symbol

hasCachedFailure(st, t, category, symbol) ==
    hasValidCache(st, t, category, failedId(symbol))

cacheFailure(st, t, full, category, symbol, error) ==
    setCache(st, t, full, category, failedId(symbol),
             [t |-> "failure", error |-> error, timestamp |-> t])

getCachedFailure(st, t, category, symbol) ==
    getCache(st, t, category, failedId(symbol))

hasCachedSuccess(st, t, category, symbol) ==
    hasValidCache(st, t, category, symbol)

getCachedSuccess(st, t, category, symbol) ==
    getCache(st, t, category, symbol)

cacheSuccess(st, t, full, category, symbol, data) ==
    setCache(st, t, full, category, symbol, data)

(***************************************************************************)
(* utils/stock-api-errors.ts                                               *)
(* An ApiError is an Error with name, status and retryable assigned.  A    *)
(* plain  new Error(message)  has no status and no retryable property      *)
(* (hasStatus / hasRetryable FALSE).                                       *)
(***************************************************************************)
\* mutant: the retryable argument is dropped and the default (false) is used
createApiError_DefaultRetryable(message, name, status, retryable) ==
    [name |-> name, message |-> message,
     hasStatus |-> TRUE, status |-> status,
     hasRetryable |-> TRUE, retryable |-> FALSE]

createApiError(message, name, status, retryable) ==
    [name |-> name, message |-> message,
     hasStatus |-> TRUE, status |-> status,
     hasRetryable |-> TRUE, retryable |-> retryable]

newError(message) ==
    [name |-> "Error", message |-> message,
     hasStatus |-> FALSE, status |-> 0,
     hasRetryable |-> FALSE, retryable |-> FALSE]

createCachedFailureError(message) ==
    createApiError(message, "CachedFailure", 0, FALSE)

\* mutant: a server error is memoized like a permanent one
handleHttpError_MemoizeServerError(st, t, full, response, cacheCategory, symbol, baseErrorMessage) ==
    LET errorMessage ==
            IF baseErrorMessage # "" THEN baseErrorMessage
            ELSE "API request failed: " \o ToString(response.status) \o " "
                 \o response.statusText
    IN  IF response.status = 402 THEN
            LET errorMsg == errorMessage \o " - API usage limit reached"
            IN  [thrown |-> createApiError(errorMsg, "PaymentRequiredError", 402, FALSE),
                 st |-> cacheFailure(st, t, full, cacheCategory, symbol, errorMsg).st]
        ELSE IF response.status = 403 THEN
            LET errorMsg == errorMessage \o " - Check your API key permissions"
            IN  [thrown |-> createApiError(errorMsg, "ForbiddenError", 403, FALSE),
                 st |-> cacheFailure(st, t, full, cacheCategory, symbol, errorMsg).st]
        ELSE IF response.status = 401 THEN
            LET errorMsg == errorMessage \o " - Invalid API key"
            IN  [thrown |-> createApiError(errorMsg, "UnauthorizedError", 401, FALSE),
                 st |-> cacheFailure(st, t, full, cacheCategory, symbol, errorMsg).st]
        ELSE IF response.status = 404 THEN
            LET errorMsg == errorMessage \o " - Stock symbol not found"
            IN  [thrown |-> createApiError(errorMsg, "NotFoundError", 404, FALSE),
                 st |-> cacheFailure(st, t, full, cacheCategory, symbol, errorMsg).st]
        ELSE IF response.status >= 500 THEN
            [thrown |-> createApiError(errorMessage \o " - Server error, will retry",
                                       "ServerError", response.status, TRUE),
             st |-> cacheFailure(st, t, full, cacheCategory, symbol,
                                 errorMessage \o " - Server error, will retry").st]
        ELSE
            [thrown |-> createApiError(errorMessage, "ClientError", response.status, FALSE),
             st |-> st]

\* response = [status, statusText]; baseErrorMessage = "" when the argument is
\* omitted (undefined and "" are both falsy).  Always throws: thrown is the
\* error, st the storage left by the failure memoization.
handleHttpError(st, t, full, response, cacheCategory, symbol, baseErrorMessage) ==
    LET errorMessage ==
            IF baseErrorMessage # "" THEN baseErrorMessage
            ELSE "API request failed: " \o ToString(response.status) \o " "
                 \o response.statusText
    IN  IF response.status = 402 THEN
            LET errorMsg == errorMessage \o " - API usage limit reached"
            IN  [thrown |-> createApiError(errorMsg, "PaymentRequiredError", 402, FALSE),
                 st |-> cacheFailure(st, t, full, cacheCategory, symbol, errorMsg).st]
        ELSE IF response.status = 403 THEN
            LET errorMsg == errorMessage \o " - Check your API key permissions"
            IN  [thrown |-> createApiError(errorMsg, "ForbiddenError", 403, FALSE),
                 st |-> cacheFailure(st, t, full, cacheCategory, symbol, errorMsg).st]
        ELSE IF response.status = 401 THEN
            LET errorMsg == errorMessage \o " - Invalid API key"
            IN  [thrown |-> createApiError(errorMsg, "UnauthorizedError", 401, FALSE),
                 st |-> cacheFailure(st, t, full, cacheCategory, symbol, errorMsg).st]
        ELSE IF response.status = 404 THEN
            LET errorMsg == errorMessage \o " - Stock symbol not found"
            IN  [thrown |-> createApiError(errorMsg, "NotFoundError", 404, FALSE),
                 st |-> cacheFailure(st, t, full, cacheCategory, symbol, errorMsg).st]
        ELSE IF response.status >= 500 THEN
            [thrown |-> createApiError(errorMessage \o " - Server error, will retry",
                                       "ServerError", response.status, TRUE),
             st |-> st]
        ELSE
            [thrown |-> createApiError(errorMessage, "ClientError", response.status, FALSE),
             st |-> st]

isPermanentError(status) == status \in {401, 402, 403, 404}

\* error.status && ... : a missing status and status 0 are both falsy
statusTruthy(error) == error.hasStatus /\ error.status # 0

\* mutant: an error that carries no retryable field counts as not retryable
shouldRetryError_MissingRetryable(error) ==
    IF ~error.hasRetryable \/ error.retryable = FALSE THEN FALSE
    ELSE IF statusTruthy(error) /\ isPermanentError(error.status) THEN FALSE
    ELSE TRUE

shouldRetryError(error) ==
    IF error.hasRetryable /\ error.retryable = FALSE THEN FALSE
    ELSE IF statusTruthy(error) /\ isPermanentError(error.status) THEN FALSE
    ELSE TRUE

(***************************************************************************)
(* The cache-first part of the fetchers, up to the network request.        *)
(* out = "throw" (error), "return" (data) or "network" (the request is     *)
(* issued and the fetcher awaits the response); st is the storage left.    *)
(***************************************************************************)
Truthy(v) == v # Undefined /\ v # Null

failureMessage(failureData) ==
    IF "error" \in DOMAIN failureData THEN failureData.error ELSE "undefined"

\* mutant: the missing credential is reported as a non-retryable API error
fetchHistoricalDataStart_KeyErrorNotRetryable(st, t, keyConfigured, symbol) ==
    IF symbol = "" THEN
        [out |-> "throw", error |-> newError("Stock symbol is required"),
         data |-> Undefined, st |-> st]
    ELSE
    LET hf == hasCachedFailure(st, t, "stockHistory1Day", symbol)
        gf == getCachedFailure(hf.st, t, "stockHistory1Day", symbol)
        st1 == IF hf.ret THEN gf.st ELSE hf.st
        hs == hasCachedSuccess(st1, t, "stockHistory1Day", symbol)
        gs == getCachedSuccess(hs.st, t, "stockHistory1Day", symbol)
        st2 == IF hs.ret THEN gs.st ELSE hs.st
    IN  IF hf.ret /\ Truthy(gf.ret) THEN
            [out |-> "throw", error |-> createCachedFailureError(failureMessage(gf.ret)),
             data |-> Undefined, st |-> gf.st]
        ELSE IF hs.ret /\ Truthy(gs.ret) THEN
            [out |-> "return", error |-> Undefined, data |-> gs.ret, st |-> gs.st]
        ELSE IF ~keyConfigured THEN
            [out |-> "throw",
             error |-> createApiError("API key is not configured", "Error", 0, FALSE),
             data |-> Undefined, st |-> st2]
        ELSE
            [out |-> "network", error |-> Undefined, data |-> Undefined, st |-> st2]

\* hooks/useStockHistory.ts, fetchHistoricalData, lines 29-62
fetchHistoricalDataStart(st, t, keyConfigured, symbol) ==
    IF symbol = "" THEN
        [out |-> "throw", error |-> newError("Stock symbol is required"),
         data |-> Undefined, st |-> st]
    ELSE
    LET hf == hasCachedFailure(st, t, "stockHistory1Day", symbol)
        gf == getCachedFailure(hf.st, t, "stockHistory1Day", symbol)
        st1 == IF hf.ret THEN gf.st ELSE hf.st
        hs == hasCachedSuccess(st1, t, "stockHistory1Day", symbol)
        gs == getCachedSuccess(hs.st, t, "stockHistory1Day", symbol)
        st2 == IF hs.ret THEN gs.st ELSE hs.st
    IN  IF hf.ret /\ Truthy(gf.ret) THEN
            [out |-> "throw", error |-> createCachedFailureError(failureMessage(gf.ret)),
             data |-> Undefined, st |-> gf.st]
        ELSE IF hs.ret /\ Truthy(gs.ret) THEN
            [out |-> "return", error |-> Undefined, data |-> gs.ret, st |-> gs.st]
        ELSE IF ~keyConfigured THEN
            [out |-> "throw", error |-> newError("API key is not configured"),
             data |-> Undefined, st |-> st2]
        ELSE
            [out |-> "network", error |-> Undefined, data |-> Undefined, st |-> st2]

\* mutant: the success cache is not consulted before the request
fetchStockQuoteStart_NoSuccessCache(st, t, keyConfigured, symbol) ==
    LET hf == hasCachedFailure(st, t, "stockDetails", symbol)
        gf == getCachedFailure(hf.st, t, "stockDetails", symbol)
    IN  IF hf.ret /\ Truthy(gf.ret) THEN
            [out |-> "throw", error |-> createCachedFailureError(failureMessage(gf.ret)),
             data |-> Undefined, st |-> gf.st]
        ELSE
            [out |-> "network", error |-> Undefined, data |-> Undefined,
             st |-> IF hf.ret THEN gf.st ELSE hf.st]

\* hooks/useStockQuote.ts, fetchStockQuote, lines 28-65
fetchStockQuoteStart(st, t, keyConfigured, symbol) ==
    IF symbol = "" THEN
        [out |-> "throw", error |-> newError("Stock symbol is required"),
         data |-> Undefined, st |-> st]
    ELSE
    LET hf == hasCachedFailure(st, t, "stockDetails", symbol)
        gf == getCachedFailure(hf.st, t, "stockDetails", symbol)
        st1 == IF hf.ret THEN gf.st ELSE hf.st
        hs == hasCachedSuccess(st1, t, "stockDetails", symbol)
        gs == getCachedSuccess(hs.st, t, "stockDetails", symbol)
        st2 == IF hs.ret THEN gs.st ELSE hs.st
    IN  IF hf.ret /\ Truthy(gf.ret) THEN
            [out |-> "throw", error |-> createCachedFailureError(failureMessage(gf.ret)),
             data |-> Undefined, st |-> gf.st]
        ELSE IF hs.ret /\ Truthy(gs.ret) THEN
            [out |-> "return", error |-> Undefined, data |-> gs.ret, st |-> gs.st]
        ELSE IF ~keyConfigured THEN
            [out |-> "throw", error |-> newError("API key is not configured"),
             data |-> Undefined, st |-> st2]
        ELSE
            [out |-> "network", error |-> Undefined, data |-> Undefined, st |-> st2]

\* hooks/useStocks.ts, useStockSearch, lines 14-34 and 54-66: one render of the
\* hook.  swrKey = "" stands for the null key (SWR does not fetch); swr is what
\* useSWR returned for that key: [data, error, isLoading].
EmptyArray == [t |-> "array", items |-> <<>>]

\* mutant: a query of one character is searched as well
useStockSearchRender_MinLength1(st, t, query, limit, swr) ==
    LET shouldFetch == query # "" /\ Len(query) >= 1
        cacheIdentifier == query \o "-" \o ToString(limit)
        hv == hasValidCache(st, t, "stockSearch", cacheIdentifier)
        hasValidCacheData == shouldFetch /\ hv.ret
        st1 == IF shouldFetch THEN hv.st ELSE st
        gc == getCache(st1, t, "stockSearch", cacheIdentifier)
        cachedData == IF hasValidCacheData THEN gc.ret ELSE Null
        st2 == IF hasValidCacheData THEN gc.st ELSE st1
        shouldUseSWR == shouldFetch /\ ~hasValidCacheData
    IN  [swrKey |-> IF shouldUseSWR
                    THEN "/search-" \o query \o "-" \o ToString(limit) ELSE "",
         data |-> IF Truthy(cachedData) THEN cachedData
                  ELSE IF Truthy(swr.data) THEN swr.data ELSE EmptyArray,
         isLoading |-> ~hasValidCacheData /\ swr.isLoading,
         isCached |-> hasValidCacheData,
         st |-> st2]

useStockSearchRender(st, t, query, limit, swr) ==
    LET shouldFetch == query # "" /\ Len(query) >= 2
        cacheIdentifier == query \o "-" \o ToString(limit)
        hv == hasValidCache(st, t, "stockSearch", cacheIdentifier)
        hasValidCacheData == shouldFetch /\ hv.ret
        st1 == IF shouldFetch THEN hv.st ELSE st
        gc == getCache(st1, t, "stockSearch", cacheIdentifier)
        cachedData == IF hasValidCacheData THEN gc.ret ELSE Null
        st2 == IF hasValidCacheData THEN gc.st ELSE st1
        shouldUseSWR == shouldFetch /\ ~hasValidCacheData
    IN  [swrKey |-> IF shouldUseSWR
                    THEN "/search-" \o query \o "-" \o ToString(limit) ELSE "",
         data |-> IF Truthy(cachedData) THEN cachedData
                  ELSE IF Truthy(swr.data) THEN swr.data ELSE EmptyArray,
         isLoading |-> ~hasValidCacheData /\ swr.isLoading,
         isCached |-> hasValidCacheData,
         st |-> st2]

(***************************************************************************)
(* SpecCache: the cache service and the cache-first fetch paths of one     *)
(* category, called in any order while the clock advances and the storage  *)
(* quota comes and goes.                                                   *)
(***************************************************************************)
Categories == {"stockSearch", "stockDetails", "stockHistory1Day"}

CacheSymbol == "AAPL"
SearchQuery == "AA"
SearchLimit == 10
SearchId == SearchQuery \o "-" \o ToString(SearchLimit)

\* the identifiers the callers use in a category: the success entry of the
\* fetch path and the Failure Record of the symbol
SuccessId(type) == IF type = "stockSearch" THEN SearchId ELSE CacheSymbol
CacheIds(type) == {SuccessId(type), failedId(CacheSymbol)}
CacheKeys == {buildKey(c, i) : c \in Categories, i \in {SearchId, CacheSymbol, failedId(CacheSymbol)}}

\* two versions of the data of each category
CacheData(type, v) ==
    CASE type = "stockDetails" ->
            [t |-> "quoteData", symbol |-> CacheSymbol, price |-> 149 + v,
             fallbackMode |-> TRUE]
      [] type = "stockHistory1Day" ->
            [t |-> "historyData", symbol |-> CacheSymbol, points |-> v]
      [] OTHER ->
            [t |-> "array", items |-> [i \in 1..v |-> CacheSymbol]]

FailureText == "API request failed: 404 Not Found - Stock symbol not found"

OtherKey == "other-app-data"
InitStorage == [k \in {OtherKey} |-> [kind |-> "garbage"]]

ClockSteps(type) == {1, durations(type)}

NoOp == [op |-> "none"]
NeverSet ==
    [at |-> -1, stored |-> FALSE, data |-> Undefined, sets |-> 0,
     prevAt |-> -1, prevData |-> Undefined]
SwrIdle == [data |-> Undefined, error |-> Undefined, isLoading |-> FALSE]
SwrLoading == [data |-> Undefined, error |-> Undefined, isLoading |-> TRUE]

\* the two hooks of the chart view, the symbols the user can select, and the
\* SWR keys ["stock-history", symbol] / ["stock-quote", symbol]
Hooks == {"history", "quote"}
Symbols == {"AAPL", "aapl"}
SwrKeys == Hooks \X Symbols

NoFetch == [state |-> "none", doneAt |-> 0]

\* a freshly loaded page: nothing selected, nothing fetched, empty Sets
HookIdle ==
    /\ selectedStock = ""
    /\ keyRef = [h \in Hooks |-> ""]
    /\ permanentlyFailedStocks = [h \in Hooks |-> {}]
    /\ swrCache = [k \in SwrKeys |-> SwrIdle]
    /\ FETCH = [k \in SwrKeys |-> NoFetch]
    /\ requests = <<>>
    /\ timers = <<>>
    /\ sent = 0
    /\ answers = [k \in SwrKeys |-> {}]
    /\ searchQuery = ""

CacheInit ==
    /\ now = 0
    /\ ticks = 0
    /\ storage = InitStorage
    /\ quotaFull = FALSE
    /\ lastOp = NoOp
    /\ setAt = [k \in CacheKeys |-> NeverSet]
    /\ writes = 0
    /\ cat \in Categories
    /\ input = NoOp
    /\ output = NoOp
    /\ view = "chart"
    /\ apiKey = TRUE
    /\ HookIdle

Tick(d) ==
    /\ ticks < MaxTicks
    /\ now' = now + d
    /\ ticks' = ticks + 1
    /\ lastOp' = NoOp
    /\ UNCHANGED <<storage, quotaFull, setAt, writes, cat, errVars, hookVars>>

SetQuota(b) ==
    /\ quotaFull # b
    /\ quotaFull' = b
    /\ lastOp' = NoOp
    /\ UNCHANGED <<now, ticks, storage, setAt, writes, cat, errVars, hookVars>>

DoSetCache(type, identifier, v) ==
    LET r == setCache(storage, now, quotaFull, type, identifier, CacheData(type, v))
    IN  /\ writes < MaxWrites
        /\ writes' = writes + 1
        /\ storage' = r.st
        /\ setAt' = [setAt EXCEPT ![buildKey(type, identifier)] =
                        [at |-> now, stored |-> ~quotaFull,
                         data |-> CacheData(type, v), sets |-> @.sets + 1,
                         prevAt |-> @.at, prevData |-> @.data]]
        /\ lastOp' = NoOp
        /\ UNCHANGED <<now, ticks, quotaFull, cat, errVars, hookVars>>

DoCacheFailure(category, symbol, error) ==
    LET r == cacheFailure(storage, now, quotaFull, category, symbol, error)
    IN  /\ writes < MaxWrites
        /\ writes' = writes + 1
        /\ storage' = r.st
        /\ setAt' = [setAt EXCEPT ![buildKey(category, failedId(symbol))] =
                        [at |-> now, stored |-> ~quotaFull,
                         data |-> [t |-> "failure", error |-> error, timestamp |-> now],
                         sets |-> @.sets + 1, prevAt |-> @.at, prevData |-> @.data]]
        /\ lastOp' = NoOp
        /\ UNCHANGED <<now, ticks, quotaFull, cat, errVars, hookVars>>

DoHasValidCache(type, identifier) ==
    LET r == hasValidCache(storage, now, type, identifier)
    IN  /\ storage' = r.st
        /\ lastOp' = [op |-> "hasValidCache", type |-> type, id |-> identifier,
                      ret |-> r.ret]
        /\ UNCHANGED <<now, ticks, quotaFull, setAt, writes, cat, errVars, hookVars>>

DoGetCache(type, identifier) ==
    LET r == getCache(storage, now, type, identifier)
    IN  /\ storage' = r.st
        /\ lastOp' = [op |-> "getCache", type |-> type, id |-> identifier,
                      ret |-> r.ret]
        /\ UNCHANGED <<now, ticks, quotaFull, setAt, writes, cat, errVars, hookVars>>

DoClearCache(type, identifier) ==
    /\ storage' = clearCache(storage, type, identifier).st
    /\ setAt' = [setAt EXCEPT ![buildKey(type, identifier)] = NeverSet]
    /\ lastOp' = NoOp
    /\ UNCHANGED <<now, ticks, quotaFull, writes, cat, errVars, hookVars>>

DoClearAllCache ==
    /\ storage' = clearAllCache(storage).st
    /\ setAt' = [k \in CacheKeys |-> NeverSet]
    /\ lastOp' = NoOp
    /\ UNCHANGED <<now, ticks, quotaFull, writes, cat, errVars, hookVars>>

\* one call of the category's fetch path, observed up to the point where it
\* returns, throws or issues its network request.  For a search it is one
\* render of the hook: with a non-null key SWR starts the request.
DoFetchStart(type) ==
    LET r == CASE type = "stockHistory1Day" ->
                    fetchHistoricalDataStart(storage, now, TRUE, CacheSymbol)
               [] type = "stockDetails" ->
                    fetchStockQuoteStart(storage, now, TRUE, CacheSymbol)
               [] OTHER ->
                    LET idle == useStockSearchRender(storage, now, SearchQuery,
                                                     SearchLimit, SwrIdle)
                        busy == useStockSearchRender(storage, now, SearchQuery,
                                                     SearchLimit, SwrLoading)
                    IN  IF idle.swrKey = ""
                        THEN [out |-> "return", data |-> idle.data, st |-> idle.st]
                        ELSE [out |-> "network", data |-> busy.data, st |-> busy.st]
    IN  /\ storage' = r.st
        /\ lastOp' = [op |-> "fetch", type |-> type, id |-> SuccessId(type),
                      ret |-> r.out, data |-> r.data]
        /\ UNCHANGED <<now, ticks, quotaFull, setAt, writes, cat, errVars, hookVars>>

CacheNext ==
    \/ \E d \in ClockSteps(cat) : Tick(d)
    \/ \E b \in BOOLEAN : SetQuota(b)
    \/ \E v \in 1..2 : DoSetCache(cat, SuccessId(cat), v)
    \/ DoCacheFailure(cat, CacheSymbol, FailureText)
    \/ \E i \in CacheIds(cat) : DoHasValidCache(cat, i)
    \/ \E i \in CacheIds(cat) : DoGetCache(cat, i)
    \/ \E i \in CacheIds(cat) : DoClearCache(cat, i)
    \/ DoClearAllCache
    \/ DoFetchStart(cat)

SpecCache == CacheInit /\ [][CacheNext]_vars

(***************************************************************************)
(* SpecStored: the same operations on a storage that an earlier session,   *)
(* another script of the origin or the user left behind: envelopes and     *)
(* Failure Records of the other categories, and under the success key of   *)
(* the category at hand a text that is not an envelope.                    *)
(***************************************************************************)
\* text JSON.parse rejects
GarbageText == [kind |-> "garbage"]
\* JSON text of an object with data and no timestamp: {"data": ...}
NoTimestampText(type) ==
    [kind |-> "json", hasData |-> TRUE, data |-> CacheData(type, 1),
     hasTimestamp |-> FALSE, timestamp |-> 0]

MalformedTexts(type) == {GarbageText, NoTimestampText(type)}

LeftoverKeys(type) ==
    UNION {{buildKey(c, i) : i \in CacheIds(c)} : c \in Categories \ {type}}

LeftoverStorage(type, text) ==
    [k \in {OtherKey, buildKey(type, SuccessId(type))} \cup LeftoverKeys(type) |->
        IF k = OtherKey THEN GarbageText
        ELSE IF k = buildKey(type, SuccessId(type)) THEN text
        ELSE IF \E c \in Categories : k = buildKey(c, SuccessId(c))
             THEN LET own == CHOOSE c \in Categories : k = buildKey(c, SuccessId(c))
                  IN  JSONstringifyEnvelope(CacheData(own, 1), 0)
        ELSE JSONstringifyEnvelope(
                 [t |-> "failure", error |-> FailureText, timestamp |-> 0], 0)]

StoredInit ==
    /\ now = 0
    /\ ticks = 0
    /\ cat \in Categories
    /\ storage \in {LeftoverStorage(cat, text) : text \in MalformedTexts(cat)}
    /\ quotaFull = FALSE
    /\ lastOp = NoOp
    /\ setAt = [k \in CacheKeys |-> NeverSet]
    /\ writes = 0
    /\ input = NoOp
    /\ output = NoOp
    /\ view = "chart"
    /\ apiKey = TRUE
    /\ HookIdle

SpecStored == StoredInit /\ [][CacheNext]_vars

(***************************************************************************)
(* SpecMeta: the diagnostic accessor getCacheMetadata next to the writers, *)
(* over the storage with leftovers.                                        *)
(***************************************************************************)
DoGetCacheMetadata(type, identifier) ==
    LET r == getCacheMetadata(storage, now, type, identifier)
    IN  /\ storage' = r.st
        /\ lastOp' = [op |-> "getCacheMetadata", type |-> type, id |-> identifier,
                      ret |-> r.ret]
        /\ UNCHANGED <<now, ticks, quotaFull, setAt, writes, cat, errVars, hookVars>>

MetaNext ==
    \/ \E d \in ClockSteps(cat) : Tick(d)
    \/ \E b \in BOOLEAN : SetQuota(b)
    \/ \E v \in 1..2 : DoSetCache(cat, SuccessId(cat), v)
    \/ DoCacheFailure(cat, CacheSymbol, FailureText)
    \/ \E i \in CacheIds(cat) : DoGetCacheMetadata(cat, i)

SpecMeta == StoredInit /\ [][MetaNext]_vars

(***************************************************************************)
(* SpecKeys: the success and failure writers of utils/stock-quote-cache.ts *)
(* called for any category and any symbol text, on an empty cache.         *)
(***************************************************************************)
\* symbol texts: two spellings of a ticker and a text that begins like the
\* identifier of a Failure Record
KeySymbols == {"AAPL", "aapl", failedId("AAPL")}

KeysOf(symbols) ==
    UNION {{buildKey(c, s), buildKey(c, failedId(s))} : c \in Categories, s \in symbols}

KeysInit ==
    /\ now = 0
    /\ ticks = 0
    /\ storage = InitStorage
    /\ quotaFull = FALSE
    /\ lastOp = NoOp
    /\ setAt = [k \in KeysOf(KeySymbols) |-> NeverSet]
    /\ writes = 0
    /\ cat \in Categories
    /\ input = NoOp
    /\ output = NoOp
    /\ view = "chart"
    /\ apiKey = TRUE
    /\ HookIdle

KeysNext ==
    \/ \E d \in ClockSteps(cat) : Tick(d)
    \/ \E b \in BOOLEAN : SetQuota(b)
    \/ \E s \in KeySymbols, v \in 1..2 : DoSetCache(cat, s, v)
    \/ \E s \in KeySymbols : DoCacheFailure(cat, s, FailureText)

SpecKeys == KeysInit /\ [][KeysNext]_vars

(***************************************************************************)
(* SpecErr: handleHttpError applied to every response status, for both     *)
(* hook categories, with and without a caller-supplied base message.       *)
(***************************************************************************)
MaxStatus == 599

Statuses == 0..MaxStatus

StatusText(status) ==
    CASE status = 401 -> "Unauthorized"
      [] status = 402 -> "Payment Required"
      [] status = 403 -> "Forbidden"
      [] status = 404 -> "Not Found"
      [] status = 429 -> "Too Many Requests"
      [] status = 500 -> "Internal Server Error"
      [] status = 503 -> "Service Unavailable"
      [] OTHER -> ""

BaseMessages == {"", "Quote request failed"}

ErrInit ==
    /\ now = 0
    /\ ticks = 0
    /\ storage = InitStorage
    /\ quotaFull = FALSE
    /\ lastOp = NoOp
    /\ setAt = [k \in CacheKeys |-> NeverSet]
    /\ writes = 0
    /\ cat \in {"stockDetails", "stockHistory1Day"}
    /\ input = NoOp
    /\ output = NoOp
    /\ view = "chart"
    /\ apiKey = TRUE
    /\ HookIdle

\* a fresh page (empty cache) receives one failed response
CallHandleHttpError(status, base) ==
    LET response == [status |-> status, statusText |-> StatusText(status)]
        r == handleHttpError(InitStorage, now, quotaFull, response, cat, CacheSymbol, base)
    IN  /\ input = NoOp
        /\ input' = [op |-> "handleHttpError", response |-> response,
                     cacheCategory |-> cat, symbol |-> CacheSymbol,
                     baseErrorMessage |-> base]
        /\ output' = [op |-> "throw", thrown |-> r.thrown]
        /\ storage' = r.st
        /\ UNCHANGED <<now, ticks, quotaFull, lastOp, setAt, writes, cat, hookVars>>

ErrNext == \E status \in Statuses, base \in BaseMessages : CallHandleHttpError(status, base)

SpecErr == ErrInit /\ [][ErrNext]_vars

(***************************************************************************)
(* SpecMsg: utils/api-error-cases.ts, getApiErrorMessage applied to any    *)
(* status code, with and without the original message.                     *)
(***************************************************************************)
\* mutant: the default bucket never asks for a retry
getApiErrorMessage_DefaultNotRetryable(statusCode, originalMessage) ==
    LET message == IF originalMessage # "" THEN originalMessage
                   ELSE "HTTP " \o ToString(statusCode) \o " Error"
        reply(name, userMessage, retryable) ==
            [code |-> statusCode, message |-> message, name |-> name,
             status |-> statusCode, userMessage |-> userMessage,
             retryable |-> retryable]
    IN  CASE statusCode = 400 ->
               reply("BadRequestError",
                     "Invalid request. Please check your input and try again.", FALSE)
          [] statusCode = 401 ->
               reply("UnauthorizedError",
                     "Authentication required. Please check your API credentials.", FALSE)
          [] statusCode = 403 ->
               reply("ForbiddenError",
                     "Access denied. Please check your permissions or try again later.", TRUE)
          [] statusCode = 404 ->
               reply("NotFoundError", "The requested data was not found.", FALSE)
          [] statusCode = 429 ->
               reply("TooManyRequestsError",
                     "Too many requests. Please wait a moment and try again.", TRUE)
          [] statusCode = 500 ->
               reply("InternalServerError",
                     "Server error occurred. Please try again later.", TRUE)
          [] statusCode = 502 ->
               reply("BadGatewayError",
                     "Service temporarily unavailable. Please try again later.", TRUE)
          [] statusCode = 503 ->
               reply("ServiceUnavailableError",
                     "Service unavailable. Please try again later.", TRUE)
          [] statusCode = 504 ->
               reply("GatewayTimeoutError", "Request timeout. Please try again.", TRUE)
          [] OTHER ->
               reply(IF statusCode >= 500 THEN "ServerError" ELSE "ClientError",
                     IF statusCode >= 500
                     THEN "Server error occurred. Please try again later."
                     ELSE "An unexpected error occurred. Please try again.",
                     FALSE)

\* originalMessage = "" when the argument is omitted (undefined and "" are
\* both falsy); the suggestion text is not modelled
getApiErrorMessage(statusCode, originalMessage) ==
    LET message == IF originalMessage # "" THEN originalMessage
                   ELSE "HTTP " \o ToString(statusCode) \o " Error"
        reply(name, userMessage, retryable) ==
            [code |-> statusCode, message |-> message, name |-> name,
             status |-> statusCode, userMessage |-> userMessage,
             retryable |-> retryable]
    IN  CASE statusCode = 400 ->
               reply("BadRequestError",
                     "Invalid request. Please check your input and try again.", FALSE)
          [] statusCode = 401 ->
               reply("UnauthorizedError",
                     "Authentication required. Please check your API credentials.", FALSE)
          [] statusCode = 403 ->
               reply("ForbiddenError",
                     "Access denied. Please check your permissions or try again later.", TRUE)
          [] statusCode = 404 ->
               reply("NotFoundError", "The requested data was not found.", FALSE)
          [] statusCode = 429 ->
               reply("TooManyRequestsError",
                     "Too many requests. Please wait a moment and try again.", TRUE)
          [] statusCode = 500 ->
               reply("InternalServerError",
                     "Server error occurred. Please try again later.", TRUE)
          [] statusCode = 502 ->
               reply("BadGatewayError",
                     "Service temporarily unavailable. Please try again later.", TRUE)
          [] statusCode = 503 ->
               reply("ServiceUnavailableError",
                     "Service unavailable. Please try again later.", TRUE)
          [] statusCode = 504 ->
               reply("GatewayTimeoutError", "Request timeout. Please try again.", TRUE)
          [] OTHER ->
               reply(IF statusCode >= 500 THEN "ServerError" ELSE "ClientError",
                     IF statusCode >= 500
                     THEN "Server error occurred. Please try again later."
                     ELSE "An unexpected error occurred. Please try again.",
                     statusCode >= 500)

\* the codes a caller can pass: below zero, zero, every code up to MaxStatus
\* and a code far beyond the HTTP range
\* utils/api-errors.ts: getApiErrorMessage(statusCode).retryable ?? false
isRetryableError(statusCode) == getApiErrorMessage(statusCode, "").retryable

StatusCodes == (-1..MaxStatus) \cup {99999}

OriginalMessages == {"", "Request failed"}

CallGetApiErrorMessage(statusCode, originalMessage) ==
    /\ input = NoOp
    /\ input' = [op |-> "getApiErrorMessage", statusCode |-> statusCode,
                 originalMessage |-> originalMessage]
    /\ output' = [op |-> "return",
                  ret |-> getApiErrorMessage(statusCode, originalMessage)]
    /\ UNCHANGED <<cacheVars, hookVars>>

MsgNext ==
    \E statusCode \in StatusCodes, originalMessage \in OriginalMessages :
        CallGetApiErrorMessage(statusCode, originalMessage)

SpecMsg == ErrInit /\ [][MsgNext]_vars

(***************************************************************************)
(* Spec: the chart view.  StockChart renders useStockHistory(selectedStock)*)
(* and useStockQuote(shouldUseFallback ? selectedStock : ""); both hooks   *)
(* run their fetcher under useSWR with the retry policy of                 *)
(* createStockRetryConfig.  The user selects symbols and goes back home,   *)
(* the network answers in any order, retry timers fire, the clock advances *)
(* and the storage quota comes and goes.                                   *)
(***************************************************************************)
MaxRequests == 3
MaxHookTicks == 1

Views == {"chart", "quote"}

\* mutant: both fetchers memoize under the category of the quote
categoryOf_Shared(hook) == "stockDetails"

categoryOf(hook) == IF hook = "history" THEN "stockHistory1Day" ELSE "stockDetails"

\* hooks/useStockHistory.ts line 95 overrides stockSwrConfig.dedupingInterval
dedupingInterval(hook) == IF hook = "history" THEN 10 * 60 * 1000 ELSE 5 * 60 * 1000

\* createStockRetryConfig(symbol, set, 2, 5000) for history, the defaults
\* (maxRetries = 2, serverErrorDelay = 3000) for quote
maxRetries(hook) == 2

serverErrorDelay(hook) == IF hook = "history" THEN 5000 ELSE 3000

\* String.prototype.toLowerCase on ASCII letters
UpperCase == "ABCDEFGHIJKLMNOPQRSTUVWXYZ"
LowerCase == "abcdefghijklmnopqrstuvwxyz"

charToLowerCase(c) ==
    IF \E i \in 1..Len(UpperCase) : SubSeq(UpperCase, i, i) = c
    THEN LET i == CHOOSE j \in 1..Len(UpperCase) : SubSeq(UpperCase, j, j) = c
         IN  SubSeq(LowerCase, i, i)
    ELSE c

RECURSIVE toLowerCase(_)
toLowerCase(s) ==
    IF s = "" THEN ""
    ELSE charToLowerCase(SubSeq(s, 1, 1)) \o toLowerCase(SubSeq(s, 2, Len(s)))

\* symbol.toLowerCase() of the symbols of the model
lowerCased == [s \in Symbols |-> toLowerCase(s)]

(***************************************************************************)
(* What the network can answer: a status and, for 2xx, a JSON body.        *)
(***************************************************************************)
Rows(symbol) ==
    [t |-> "array",
     items |-> <<[symbol |-> symbol, date |-> "2024-01-02", price |-> 100]>>]
ErrorBody == [t |-> "object", errorMessage |-> "Limit Reach"]
\* a 200 body that is JSON but neither an error envelope nor an array
StringBody == [t |-> "string"]

\* one status of each class of handleHttpError (402, another permanent status,
\* a server error, another client error) besides 200
ResponseStatuses == {200, 400, 402, 404, 503}

\* fetch(url) rejects (offline, DNS, CORS): there is no response; the fetcher
\* sees a TypeError thrown by the await.  It is written as status 0.
NetworkError == [status |-> 0, body |-> Null]

Responses(symbol) ==
    {[status |-> 200, body |-> b] : b \in {Rows(symbol), ErrorBody, StringBody}}
    \cup {[status |-> s, body |-> Null] : s \in ResponseStatuses \ {200}}
    \cup {NetworkError}

responseOk(response) == response.status \in 200..299

\* [thrown, error, result]
transformQuoteResponse(data, symbol) ==
    IF data.t = "object" THEN
        [thrown |-> TRUE, error |-> newError(data.errorMessage), result |-> Undefined]
    ELSE IF data.t # "array" \/ Len(data.items) = 0 THEN
        [thrown |-> TRUE, error |-> newError("No quote data found in API response"),
         result |-> Undefined]
    ELSE
        [thrown |-> FALSE, error |-> Undefined,
         result |-> [t |-> "quote", quote |-> data.items[1], symbol |-> symbol,
                     fallbackMode |-> TRUE]]

\* utils/stock-history-transform.ts.  An element of a response array is null
\* or an object, written as the record of the fields it has; a field that is
\* present has the type the API gives it, so typeof item.symbol === "string"
\* reads "symbol" \in DOMAIN item.
isHistoricalResponseArray(data) ==
    IF data.t # "array" THEN FALSE
    ELSE IF Len(data.items) = 0 THEN TRUE
    ELSE LET firstItem == data.items[1]
         IN  IF firstItem = Null THEN FALSE
             ELSE /\ "symbol" \in DOMAIN firstItem
                  /\ "date" \in DOMAIN firstItem
                  /\ "price" \in DOMAIN firstItem

\* [thrown, error]
validateHistoricalResponse(data) ==
    IF data.t = "object" THEN
        [thrown |-> TRUE, error |-> newError(data.errorMessage)]
    ELSE IF ~isHistoricalResponseArray(data) THEN
        [thrown |-> TRUE, error |-> newError("No historical data found in API response")]
    ELSE [thrown |-> FALSE, error |-> Undefined]

\* the object the map callback builds for one element; a key whose value is
\* undefined is left out, as JSON.stringify leaves it out of the stored text
historicalPrice(item) ==
    [f \in (DOMAIN item \cap {"symbol", "date", "price"}) \cup {"volume"} |->
        IF f # "volume" THEN item[f]
        ELSE IF "volume" \in DOMAIN item /\ item.volume # 0 THEN item.volume ELSE 0]

\* mutant: the series is built in reverse order
transformHistoricalResponse_Reversed(data, symbol) ==
    LET v == validateHistoricalResponse(data)
        n == Len(data.items)
    IN  IF v.thrown THEN [thrown |-> TRUE, error |-> v.error, result |-> Undefined]
        ELSE IF \E i \in 1..n : data.items[i] = Null THEN
            [thrown |-> TRUE, result |-> Undefined,
             error |-> [newError("Cannot read properties of null (reading 'symbol')")
                            EXCEPT !.name = "TypeError"]]
        ELSE
            [thrown |-> FALSE, error |-> Undefined,
             result |-> [t |-> "history", symbol |-> symbol,
                         data |-> [i \in 1..n |-> historicalPrice(data.items[n + 1 - i])]]]

\* [thrown, error, result]; item.symbol of a null element is a TypeError
transformHistoricalResponse(data, symbol) ==
    LET v == validateHistoricalResponse(data)
        n == Len(data.items)
    IN  IF v.thrown THEN [thrown |-> TRUE, error |-> v.error, result |-> Undefined]
        ELSE IF \E i \in 1..n : data.items[i] = Null THEN
            [thrown |-> TRUE, result |-> Undefined,
             error |-> [newError("Cannot read properties of null (reading 'symbol')")
                            EXCEPT !.name = "TypeError"]]
        ELSE
            [thrown |-> FALSE, error |-> Undefined,
             result |-> [t |-> "history", symbol |-> symbol,
                         data |-> [i \in 1..n |-> historicalPrice(data.items[i])]]]

(***************************************************************************)
(* The fetchers after the response has arrived.                            *)
(***************************************************************************)
\* hooks/useStockHistory.ts, fetchHistoricalData, lines 62-76
fetchHistoricalDataEnd(st, t, full, symbol, response) ==
    IF response = NetworkError THEN
        [out |-> "throw", error |-> newError("Failed to fetch"),
         data |-> Undefined, st |-> st]
    ELSE IF ~responseOk(response) THEN
        LET h == handleHttpError(st, t, full,
                     [status |-> response.status,
                      statusText |-> StatusText(response.status)],
                     "stockHistory1Day", symbol, "")
        IN  [out |-> "throw", error |-> h.thrown, data |-> Undefined, st |-> h.st]
    ELSE
        LET tr == transformHistoricalResponse(response.body, symbol)
        IN  IF tr.thrown THEN
                [out |-> "throw", error |-> tr.error, data |-> Undefined, st |-> st]
            ELSE
                [out |-> "return", error |-> Undefined, data |-> tr.result,
                 st |-> cacheSuccess(st, t, full, "stockHistory1Day", symbol, tr.result).st]

\* hooks/useStockQuote.ts, fetchStockQuote, lines 66-85
fetchStockQuoteEnd(st, t, full, symbol, response) ==
    IF response = NetworkError THEN
        [out |-> "throw", error |-> newError("Failed to fetch"),
         data |-> Undefined, st |-> st]
    ELSE IF ~responseOk(response) THEN
        LET h == handleHttpError(st, t, full,
                     [status |-> response.status,
                      statusText |-> StatusText(response.status)],
                     "stockDetails", symbol, "")
        IN  [out |-> "throw", error |-> h.thrown, data |-> Undefined, st |-> h.st]
    ELSE
        LET tr == transformQuoteResponse(response.body, symbol)
        IN  IF tr.thrown THEN
                [out |-> "throw", error |-> tr.error, data |-> Undefined, st |-> st]
            ELSE
                [out |-> "return", error |-> Undefined, data |-> tr.result,
                 st |-> cacheSuccess(st, t, full, "stockDetails", symbol, tr.result).st]

fetcherStart(hook, st, symbol) ==
    IF hook = "history" THEN fetchHistoricalDataStart(st, now, apiKey, symbol)
    ELSE fetchStockQuoteStart(st, now, apiKey, symbol)

fetcherEnd(hook, st, full, symbol, response) ==
    IF hook = "history" THEN fetchHistoricalDataEnd(st, now, full, symbol, response)
    ELSE fetchStockQuoteEnd(st, now, full, symbol, response)

(***************************************************************************)
(* useSWR, as the two hooks configure it.  A handler works on the record   *)
(* S of everything it can change and returns the record it leaves.         *)
(*                                                                         *)
(* requests[i] = [hook, symbol, retryCount, attached, safe, current,       *)
(* refused, phase, out, error, data]: a revalidation that called the       *)
(* fetcher.  phase is                                                      *)
(* "network" while the fetcher awaits the response and "settled" once the  *)
(* fetcher has returned or thrown and SWR's continuation is queued.        *)
(* current: FETCH[key] is this request.  attached: the hook instance that  *)
(* started it is still mounted.  safe: that instance's key is the request's*)
(* key (SWR's callbackSafeguard).  refused (history): when it started, the *)
(* network had already answered its key with 401, 402, 403 or 404.         *)
(***************************************************************************)
Here ==
    [selectedStock |-> selectedStock, keyRef |-> keyRef,
     permanentlyFailedStocks |-> permanentlyFailedStocks,
     swrCache |-> swrCache, FETCH |-> FETCH, requests |-> requests,
     timers |-> timers, storage |-> storage, sent |-> sent, answers |-> answers]

Becomes(S) ==
    /\ selectedStock' = S.selectedStock
    /\ keyRef' = S.keyRef
    /\ permanentlyFailedStocks' = S.permanentlyFailedStocks
    /\ swrCache' = S.swrCache
    /\ FETCH' = S.FETCH
    /\ requests' = S.requests
    /\ timers' = S.timers
    /\ storage' = S.storage
    /\ sent' = S.sent
    /\ answers' = S.answers

Without(seq, i) == SubSeq(seq, 1, i - 1) \o SubSeq(seq, i + 1, Len(seq))

\* revalidate() that starts a new request: publish the loading state, call
\* the fetcher and make it the marker of the key
StartRequest(S, hook, symbol, retryCount) ==
    LET key == <<hook, symbol>>
        older == [i \in DOMAIN S.requests |->
                    IF S.requests[i].hook = hook /\ S.requests[i].symbol = symbol
                    THEN [S.requests[i] EXCEPT !.current = FALSE]
                    ELSE S.requests[i]]
        \* f: what the fetcher did up to its return, throw or network request
        started(f) ==
            [S EXCEPT !.swrCache[key].isLoading = (S.swrCache[key].data = Undefined),
                      !.FETCH[key] = [state |-> "pending", doneAt |-> 0],
                      !.requests =
                          Append(older,
                                 [hook |-> hook, symbol |-> symbol,
                                  retryCount |-> retryCount,
                                  attached |-> TRUE, safe |-> TRUE, current |-> TRUE,
                                  refused |-> \E a \in S.answers[key] :
                                                 isPermanentError(a.status),
                                  phase |-> IF f.out = "network" THEN "network"
                                            ELSE "settled",
                                  out |-> f.out, error |-> f.error, data |-> f.data]),
                      !.storage = f.st,
                      !.sent = IF f.out = "network" THEN @ + 1 ELSE @]
    IN  started(fetcherStart(hook, S.storage, symbol))

\* FETCH[key] is deleted dedupingInterval after the request succeeded
markerLive(S, hook, symbol) ==
    LET m == S.FETCH[<<hook, symbol>>]
    IN  \/ m.state = "pending"
        \/ m.state = "done" /\ now - m.doneAt < dedupingInterval(hook)

\* revalidate on mount / key change (dedupe: true)
softRevalidate(S, hook, symbol) ==
    IF markerLive(S, hook, symbol) THEN S
    ELSE StartRequest(S, hook, symbol, 0)

\* mutant: the retry count limit is not checked
onErrorRetry_NoCeiling(S, hook, symbol, error, retryCount) ==
    IF ~shouldRetryError(error) THEN
        [S EXCEPT !.permanentlyFailedStocks[hook] = @ \cup {lowerCased[symbol]}]
    ELSE IF statusTruthy(error) /\ isPermanentError(error.status) THEN
        [S EXCEPT !.permanentlyFailedStocks[hook] = @ \cup {lowerCased[symbol]}]
    ELSE IF statusTruthy(error) /\ error.status >= 500 THEN
        [S EXCEPT !.timers = Append(@, [hook |-> hook, symbol |-> symbol,
                                        retryCount |-> retryCount])]
    ELSE S

\* utils/stock-swr-retry.ts, the onErrorRetry callback of hook(symbol)
onErrorRetry(S, hook, symbol, error, retryCount) ==
    IF ~shouldRetryError(error) THEN
        [S EXCEPT !.permanentlyFailedStocks[hook] = @ \cup {lowerCased[symbol]}]
    ELSE IF statusTruthy(error) /\ isPermanentError(error.status) THEN
        [S EXCEPT !.permanentlyFailedStocks[hook] = @ \cup {lowerCased[symbol]}]
    ELSE IF retryCount >= maxRetries(hook) THEN S
    ELSE IF statusTruthy(error) /\ error.status >= 500 THEN
        [S EXCEPT !.timers = Append(@, [hook |-> hook, symbol |-> symbol,
                                        retryCount |-> retryCount])]
    ELSE S

\* SWR's continuation of request i once its fetcher gave outcome f
finishRequest(S, i, f) ==
    LET req == S.requests[i]
        key == <<req.hook, req.symbol>>
        S0 == [S EXCEPT !.requests = Without(@, i), !.storage = f.st]
    IN  IF f.out = "return" THEN
            IF ~req.current THEN S0
            ELSE [S0 EXCEPT !.swrCache[key] =
                                [data |-> f.data, error |-> Undefined, isLoading |-> FALSE],
                            !.FETCH[key] = [state |-> "done", doneAt |-> now]]
        ELSE
            LET S1 == [S0 EXCEPT !.FETCH[key] = IF req.current THEN NoFetch ELSE @]
                S2 == IF req.safe
                      THEN onErrorRetry(S1, req.hook, req.symbol, f.error,
                                        req.retryCount + 1)
                      ELSE S1
            IN  [S2 EXCEPT !.swrCache[key] =
                               [@ EXCEPT !.error = f.error, !.isLoading = FALSE]]

(***************************************************************************)
(* One render of the hooks and of StockChart.                              *)
(***************************************************************************)
\* mutant: the in-memory set is not consulted
useKey_NoSetCheck(S, hook, symbol) ==
    IF symbol # "" /\ Len(symbol) > 0 THEN symbol ELSE ""

\* shouldFetch ? [name, symbol] : null  -- "" stands for the null key
useKey(S, hook, symbol) ==
    IF symbol # "" /\ Len(symbol) > 0
       /\ lowerCased[symbol] \notin S.permanentlyFailedStocks[hook]
    THEN symbol ELSE ""

\* what useSWR returns for a key; the null key has no data, no error and is
\* not loading
useSWR(S, hook, key) ==
    IF key = "" THEN SwrIdle ELSE S.swrCache[<<hook, key>>]

DefaultHistory(symbol) == [t |-> "history", data |-> <<>>, symbol |-> symbol]

useStockHistory(S, symbol) ==
    LET result(r) ==
            [data |-> IF Truthy(r.data) THEN r.data ELSE DefaultHistory(symbol),
             error |-> r.error, isLoading |-> r.isLoading]
    IN  result(useSWR(S, "history", useKey(S, "history", symbol)))

useStockQuote(S, symbol) ==
    LET result(r) ==
            [data |-> IF Truthy(r.data) THEN r.data ELSE Null,
             error |-> r.error, isLoading |-> r.isLoading]
    IN  result(useSWR(S, "quote", useKey(S, "quote", symbol)))

\* mutant: the fallback is used for every history error
StockChart_AnyError(S) ==
    LET \* h, q: what useStockHistory and useStockQuote returned
        shown(h, shouldUseFallback, q) ==
            LET isLoading == h.isLoading \/ (shouldUseFallback /\ q.isLoading)
                error == IF shouldUseFallback THEN q.error ELSE h.error
            IN  [shouldUseFallback |-> shouldUseFallback,
                 quoteArg |-> IF shouldUseFallback THEN S.selectedStock ELSE "",
                 historicalData |-> h.data, historyError |-> h.error,
                 quoteData |-> q.data, error |-> error, isLoading |-> isLoading,
                 shows |-> IF isLoading THEN "ChartLoading"
                           ELSE IF error # Undefined
                                   /\ ~(shouldUseFallback /\ Truthy(q.data))
                                THEN "ChartError"
                           ELSE IF shouldUseFallback /\ Truthy(q.data)
                                THEN "QuoteFallbackCard"
                           ELSE IF Len(h.data.data) = 0 THEN "EmptyChartState"
                           ELSE "HighchartsReact"]
        fallback(h, shouldUseFallback) ==
            shown(h, shouldUseFallback,
                  useStockQuote(S, IF shouldUseFallback THEN S.selectedStock ELSE ""))
        chart(h) ==
            fallback(h, h.error # Undefined)
    IN  chart(useStockHistory(S, S.selectedStock))

\* StockChart: the arguments it passes down and the branch it renders
StockChart(S) ==
    LET \* h, q: what useStockHistory and useStockQuote returned
        shown(h, shouldUseFallback, q) ==
            LET isLoading == h.isLoading \/ (shouldUseFallback /\ q.isLoading)
                error == IF shouldUseFallback THEN q.error ELSE h.error
            IN  [shouldUseFallback |-> shouldUseFallback,
                 quoteArg |-> IF shouldUseFallback THEN S.selectedStock ELSE "",
                 historicalData |-> h.data, historyError |-> h.error,
                 quoteData |-> q.data, error |-> error, isLoading |-> isLoading,
                 shows |-> IF isLoading THEN "ChartLoading"
                           ELSE IF error # Undefined
                                   /\ ~(shouldUseFallback /\ Truthy(q.data))
                                THEN "ChartError"
                           ELSE IF shouldUseFallback /\ Truthy(q.data)
                                THEN "QuoteFallbackCard"
                           ELSE IF Len(h.data.data) = 0 THEN "EmptyChartState"
                           ELSE "HighchartsReact"]
        fallback(h, shouldUseFallback) ==
            shown(h, shouldUseFallback,
                  useStockQuote(S, IF shouldUseFallback THEN S.selectedStock ELSE ""))
        chart(h) ==
            fallback(h, h.error # Undefined /\ h.error.hasStatus /\ h.error.status = 402)
    IN  chart(useStockHistory(S, S.selectedStock))

\* the effect of useSWR for one hook after a render that gave the hooks the
\* keys newKey: revalidate if the key is not null and has changed.  S is the
\* page before the render, T the page the earlier effects left.
revalidateOnKeyChange(S, T, hook, newKey) ==
    IF newKey[hook] # "" /\ newKey[hook] # S.keyRef[hook]
    THEN softRevalidate(T, hook, newKey[hook]) ELSE T

\* the render commits the keys, then the effects run: history first, then
\* quote.  A request stays safe only while its hook instance keeps the
\* request's key; with nothing selected the view is unmounted and its
\* requests are detached.
commitRender(S, newKey) ==
    LET mounted == S.selectedStock # ""
        reqs == [i \in DOMAIN S.requests |->
                   LET r == S.requests[i]
                   IN  IF ~r.attached THEN r
                       ELSE IF ~mounted THEN [r EXCEPT !.attached = FALSE]
                       ELSE [r EXCEPT !.safe = (r.symbol = newKey[r.hook])]]
        S1 == [S EXCEPT !.keyRef = newKey, !.requests = reqs]
    IN  revalidateOnKeyChange(S, revalidateOnKeyChange(S, S1, "history", newKey),
                              "quote", newKey)

\* A render pass of the mounted view followed by the effects of useSWR
render(S) ==
    LET mounted == S.selectedStock # ""
        hKey == IF view = "chart" THEN useKey(S, "history", S.selectedStock) ELSE ""
        qArg == IF view = "chart" THEN StockChart(S).quoteArg ELSE S.selectedStock
        qKey == useKey(S, "quote", qArg)
    IN  commitRender(S, [h \in Hooks |->
                           IF ~mounted THEN ""
                           ELSE IF h = "history" THEN hKey ELSE qKey])

(***************************************************************************)
(* The events.                                                             *)
(***************************************************************************)
WithinBounds(S) == S.sent <= MaxRequests

\* the handler leaves S
Commit(S) == WithinBounds(S) /\ Becomes(S)

Settled == {i \in DOMAIN requests : requests[i].phase = "settled"}

\* no SWR continuation is queued: the page is between two events
Quiet == Settled = {}

\* an hour later (the dedup markers are gone, the cache entries of the two
\* categories still valid) and the next day (the cache entries are expired)
HookClockSteps == {HourMs, 24 * HourMs}

Init ==
    /\ now = 0
    /\ ticks = 0
    /\ storage = InitStorage
    /\ quotaFull = FALSE
    /\ lastOp = NoOp
    /\ setAt = [k \in CacheKeys |-> NeverSet]
    /\ writes = 0
    /\ cat = "stockDetails"
    /\ input = NoOp
    /\ output = NoOp
    /\ view \in Views
    /\ apiKey \in BOOLEAN
    /\ HookIdle

HookUnchanged == UNCHANGED <<now, ticks, quotaFull, lastOp, setAt, writes, cat,
                             input, output, view, apiKey, searchQuery>>

\* setSelectedStock(symbol); "" is the way back home
SelectStock(symbol) ==
    /\ Quiet
    /\ symbol # selectedStock
    /\ Commit(render([Here EXCEPT !.selectedStock = symbol]))
    /\ HookUnchanged

\* the network answers request i; full: localStorage.setItem throws while
\* the fetcher handles this response
Respond(i, response, full) ==
    /\ Quiet
    /\ requests[i].phase = "network"
    /\ LET req == requests[i]
           f == fetcherEnd(req.hook, storage, full, req.symbol, response)
           S0 == [Here EXCEPT !.answers[<<req.hook, req.symbol>>] =
                                  @ \cup {[status |-> response.status, out |-> f.out]}]
       IN  Commit(render(finishRequest(S0, i, f)))
    /\ HookUnchanged

\* the queued continuation of the oldest request whose fetcher settled
\* without the network; the view re-renders once the queue is empty
Complete(i) ==
    /\ i \in Settled
    /\ \A j \in Settled : i <= j
    /\ LET req == requests[i]
           f == [out |-> req.out, error |-> req.error, data |-> req.data,
                 st |-> storage]
           S1 == finishRequest(Here, i, f)
       IN  Commit(IF Settled = {i} THEN render(S1) ELSE S1)
    /\ HookUnchanged

\* retry timer j fires: revalidate({ retryCount }) of the hook subscribed to
\* the key, if there is one
TimerFire(j) ==
    /\ Quiet
    /\ LET tm == timers[j]
           S0 == [Here EXCEPT !.timers = Without(@, j)]
       IN  Commit(IF keyRef[tm.hook] = tm.symbol
                  THEN StartRequest(S0, tm.hook, tm.symbol, tm.retryCount)
                  ELSE S0)
    /\ HookUnchanged

\* the clock advances; a pending retry timer fires before its delay is over
HookTick(d) ==
    /\ Quiet
    /\ ticks < MaxHookTicks
    /\ \A j \in DOMAIN timers : d < serverErrorDelay(timers[j].hook)
    /\ now' = now + d
    /\ ticks' = ticks + 1
    /\ UNCHANGED <<storage, quotaFull, lastOp, setAt, writes, cat, errVars, hookVars>>

Next ==
    \/ \E symbol \in Symbols \cup {""} : SelectStock(symbol)
    \/ \E i \in DOMAIN requests :
          \E response \in Responses(requests[i].symbol), full \in BOOLEAN :
              Respond(i, response, full)
    \/ \E i \in DOMAIN requests : Complete(i)
    \/ \E j \in DOMAIN timers : TimerFire(j)
    \/ \E d \in HookClockSteps : HookTick(d)

Spec == Init /\ [][Next]_vars

(***************************************************************************)
(* SpecHist: the end of fetchHistoricalData on a 200 response, for every   *)
(* body of up to MaxRows elements: an element is null or an object with    *)
(* any of the fields symbol, date, price, volume.                          *)
(***************************************************************************)
MaxRows == 2

ItemFields == {"symbol", "date", "price", "volume"}

HistoryItem(fields, date, volume) ==
    [f \in fields |->
        CASE f = "symbol" -> CacheSymbol
          [] f = "date" -> date
          [] f = "price" -> 100
          [] f = "volume" -> volume]

HistoryItems ==
    {Null} \cup {HistoryItem(fields, date, volume) :
                    fields \in SUBSET ItemFields,
                    date \in {"2024-01-02", "2024-01-03"}, volume \in {0, 5}}

HistoryPayloads ==
    {[t |-> "array", items |-> items] :
        items \in UNION {[1..n -> HistoryItems] : n \in 0..MaxRows}}
    \cup {ErrorBody, StringBody}

HistInit ==
    /\ now = 0
    /\ ticks = 0
    /\ storage = InitStorage
    /\ quotaFull = FALSE
    /\ lastOp = NoOp
    /\ setAt = [k \in CacheKeys |-> NeverSet]
    /\ writes = 0
    /\ cat = "stockHistory1Day"
    /\ input = NoOp
    /\ output = NoOp
    /\ view = "chart"
    /\ apiKey = TRUE
    /\ HookIdle

\* response.json() gave payload: transform, cache, return
CallFetchHistoricalDataEnd(payload) ==
    LET r == fetchHistoricalDataEnd(storage, now, quotaFull, CacheSymbol,
                                    [status |-> 200, body |-> payload])
    IN  /\ input = NoOp
        /\ input' = [op |-> "fetchHistoricalData", data |-> payload]
        /\ output' = [op |-> r.out, error |-> r.error, data |-> r.data]
        /\ storage' = r.st
        /\ UNCHANGED <<now, ticks, quotaFull, lastOp, setAt, writes, cat, hookVars>>

HistNext == \E payload \in HistoryPayloads : CallFetchHistoricalDataEnd(payload)

SpecHist == HistInit /\ [][HistNext]_vars

(***************************************************************************)
(* SpecClear: the chart view next to the callers that clear the cache:      *)
(* clearCache on a Failure Record, clearAllCache, clearAllStockCache.       *)
(***************************************************************************)
MaxClears == 1

includes(text, part) ==
    \E i \in 1..(Len(text) - Len(part) + 1) :
        SubSeq(text, i, i + Len(part) - 1) = part

\* hooks/useStocks.ts clearAllStockCache
clearAllStockCache(st) ==
    LET cachePrefix == "market-lens-"
        keysToRemove ==
            {key \in DOMAIN st :
                /\ startsWith(key, cachePrefix)
                /\ \/ includes(key, "stockSearch")
                   \/ includes(key, "stockDetails")
                   \/ includes(key, "stockHistory")}
    IN  [k \in DOMAIN st \ keysToRemove |-> st[k]]

\* a caller clears; cleared is the storage the call leaves
Clear(cleared) ==
    /\ Quiet
    /\ writes < MaxClears
    /\ writes' = writes + 1
    /\ storage' = cleared
    /\ UNCHANGED <<now, ticks, quotaFull, lastOp, setAt, cat, errVars, hookVars>>

\* what the clearing calls would leave: clearCache on a Failure Record,
\* clearAllCache, clearAllStockCache
Cleared ==
    {clearCache(storage, categoryOf(h), failedId(s)).st : h \in Hooks, s \in Symbols}
        \cup {clearAllCache(storage).st, clearAllStockCache(storage)}

ClearNext ==
    \/ Next
    \/ \E cleared \in Cleared : Clear(cleared)

SpecClear == Init /\ [][ClearNext]_vars

(***************************************************************************)
(* SpecSearch: the search form.  SearchModalForm passes searchQuery to     *)
(* useStockSearch(query, 10); the hook reads the cache during the render   *)
(* and otherwise fetches under useSWR with cacheConfig.swr, that is with   *)
(* SWR's own onErrorRetry bounded by errorRetryCount.  The user submits    *)
(* queries, the network answers in any order, retry timers fire and the    *)
(* clock advances.                                                         *)
(*                                                                         *)
(* requests[i] = [key, query, retryCount, current, safe, after]: a fetcher  *)
(* call awaiting the network.  timers[j] = [key, retryCount, status].      *)
(* status and after are history: the status of the answer whose failure    *)
(* set the timer (-1 when the fetcher threw before the request), and the   *)
(* status of the timer that started the request (-2 when none did).        *)
(***************************************************************************)
MaxSearchRequests == 3
MaxSearchTimers == 2
MaxSearchTicks == 2

\* config/cache.ts, cacheConfig.swr
errorRetryCount == 2
searchDedupingInterval == 30 * 1000

\* the texts the user submits: too short to search, a symbol prefix, and one
\* that validateStockQuery rejects
SearchQueries == {"A", "AA", "A B"}

searchKey(q, limit) == "/search-" \o q \o "-" \o ToString(limit)

SearchKeys == {searchKey(q, SearchLimit) : q \in SearchQueries}

RECURSIVE trimStart(_)
trimStart(s) ==
    IF s # "" /\ SubSeq(s, 1, 1) = " " THEN trimStart(SubSeq(s, 2, Len(s))) ELSE s

RECURSIVE trimEnd(_)
trimEnd(s) ==
    IF s # "" /\ SubSeq(s, Len(s), Len(s)) = " "
    THEN trimEnd(SubSeq(s, 1, Len(s) - 1)) ELSE s

trim(s) == trimEnd(trimStart(s))

\* the characters of /^[A-Z0-9^.\-:]{1,10}$/i
SymbolChars == UpperCase \o LowerCase \o "0123456789^.-:"

\* services/api.ts, validateStockQuery: thrown, or the query passes
validateStockQuery(q) ==
    IF q = "" \/ Len(trim(q)) = 0 THEN
        [thrown |-> TRUE, error |-> newError("Search query cannot be empty")]
    ELSE IF ~(/\ Len(trim(q)) \in 1..10
              /\ \A i \in 1..Len(trim(q)) :
                    \E j \in 1..Len(SymbolChars) :
                        SubSeq(trim(q), i, i) = SubSeq(SymbolChars, j, j))
    THEN [thrown |-> TRUE, error |-> newError("Invalid stock symbol format")]
    ELSE [thrown |-> FALSE, error |-> Undefined]

\* validateStockQuery of the queries of the model
validated == [q \in SearchQueries |-> validateStockQuery(q)]

\* services/api.ts, makeApiRequest: the thrown apiError is a plain object
\* { name, message, status: undefined }
makeApiRequest(response) ==
    IF response = NetworkError THEN
        [thrown |-> TRUE, data |-> Undefined,
         error |-> [newError("Failed to fetch") EXCEPT !.name = "TypeError"]]
    ELSE IF ~responseOk(response) THEN
        [thrown |-> TRUE, data |-> Undefined,
         error |-> newError("HTTP " \o ToString(response.status) \o ": "
                            \o StatusText(response.status))]
    ELSE [thrown |-> FALSE, data |-> response.body, error |-> Undefined]

\* what the network can answer to a search: the matches, a permanent status,
\* a server error, or no response at all
SearchResponses(q) ==
    {[status |-> 200, body |-> Rows(q)], [status |-> 404, body |-> Null],
     [status |-> 503, body |-> Null], NetworkError}

\* hooks/useStocks.ts, the fetcher of useStockSearch after the response
searchFetcherEnd(st, t, full, q, limit, response) ==
    LET settled(m) ==
            IF m.thrown
            THEN [out |-> "throw", error |-> m.error, data |-> Undefined, st |-> st]
            ELSE [out |-> "return", error |-> Undefined, data |-> m.data,
                  st |-> setCache(st, t, full, "stockSearch",
                                  q \o "-" \o ToString(limit), m.data).st]
    IN  settled(makeApiRequest(response))

SearchHere ==
    [searchQuery |-> searchQuery, keyRef |-> keyRef, swrCache |-> swrCache,
     FETCH |-> FETCH, requests |-> requests, timers |-> timers,
     storage |-> storage, sent |-> sent, answers |-> answers]

SearchBecomes(S) ==
    /\ S.sent <= MaxSearchRequests
    /\ Len(S.timers) <= MaxSearchTimers
    /\ searchQuery' = S.searchQuery
    /\ keyRef' = S.keyRef
    /\ swrCache' = S.swrCache
    /\ FETCH' = S.FETCH
    /\ requests' = S.requests
    /\ timers' = S.timers
    /\ storage' = S.storage
    /\ sent' = S.sent
    /\ answers' = S.answers

\* SWR's own onErrorRetry: give up once retryCount exceeds errorRetryCount,
\* otherwise revalidate after the backoff delay
defaultOnErrorRetry(S, key, retryCount, status) ==
    IF retryCount > errorRetryCount THEN S
    ELSE [S EXCEPT !.timers = Append(@, [key |-> key, retryCount |-> retryCount,
                                         status |-> status])]

\* SWR's continuation when the fetcher of req threw error
searchFailed(S, req, error, status) ==
    LET S1 == [S EXCEPT !.FETCH[req.key] = IF req.current THEN NoFetch ELSE @]
        S2 == IF req.safe
              THEN defaultOnErrorRetry(S1, req.key, req.retryCount + 1, status)
              ELSE S1
    IN  [S2 EXCEPT !.swrCache[req.key] =
                       [@ EXCEPT !.error = error, !.isLoading = FALSE]]

\* SWR's continuation when the fetcher of req returned data
searchSucceeded(S, req, data) ==
    IF ~req.current THEN S
    ELSE [S EXCEPT !.swrCache[req.key] =
                       [data |-> data, error |-> Undefined, isLoading |-> FALSE],
                   !.FETCH[req.key] = [state |-> "done", doneAt |-> now]]

\* revalidate() that starts a new request: searchStocks validates the query,
\* which throws before any request, or awaits fetch
startSearchRequest(S, key, q, retryCount, after) ==
    LET older == [i \in DOMAIN S.requests |->
                    IF S.requests[i].key = key
                    THEN [S.requests[i] EXCEPT !.current = FALSE]
                    ELSE S.requests[i]]
        req == [key |-> key, query |-> q, retryCount |-> retryCount,
                current |-> TRUE, safe |-> TRUE, after |-> after]
    IN  IF validated[q].thrown
        THEN searchFailed([S EXCEPT !.requests = older], req, validated[q].error, -1)
        ELSE [S EXCEPT !.swrCache[key].isLoading = (S.swrCache[key].data = Undefined),
                       !.FETCH[key] = [state |-> "pending", doneAt |-> 0],
                       !.requests = Append(older, req),
                       !.sent = @ + 1]

searchMarkerLive(S, key) ==
    \/ S.FETCH[key].state = "pending"
    \/ /\ S.FETCH[key].state = "done"
       /\ now - S.FETCH[key].doneAt < searchDedupingInterval

\* revalidate with dedupe: true (mount, key change and SWR's retry timers)
revalidateSearch(S, key, q, retryCount, after) ==
    IF searchMarkerLive(S, key) THEN S
    ELSE startSearchRequest(S, key, q, retryCount, after)

\* what useSWR returns to useStockSearch for the key of this render
useSearchSWR(S, key) == IF key = "" THEN SwrIdle ELSE S.swrCache[key]

\* the render r of useStockSearch is committed and the effect of useSWR runs
commitSearchRender(S, r) ==
    LET S1 == [S EXCEPT !.keyRef = [h \in {"search"} |-> r.swrKey],
                        !.storage = r.st,
                        !.requests = [i \in DOMAIN S.requests |->
                                         [S.requests[i] EXCEPT
                                             !.safe = (S.requests[i].key = r.swrKey)]]]
    IN  IF r.swrKey # "" /\ r.swrKey # S.keyRef["search"]
        THEN revalidateSearch(S1, r.swrKey, S.searchQuery, 0, -2)
        ELSE S1

renderSearch(S) ==
    commitSearchRender(S, useStockSearchRender(S.storage, now, S.searchQuery,
                                               SearchLimit, SwrIdle))

SearchInit ==
    /\ now = 0
    /\ ticks = 0
    /\ storage = InitStorage
    /\ quotaFull = FALSE
    /\ lastOp = NoOp
    /\ setAt = [k \in CacheKeys |-> NeverSet]
    /\ writes = 0
    /\ cat = "stockSearch"
    /\ input = NoOp
    /\ output = NoOp
    /\ view = "chart"
    /\ apiKey = TRUE
    /\ selectedStock = ""
    /\ permanentlyFailedStocks = [h \in Hooks |-> {}]
    /\ searchQuery = ""
    /\ keyRef = [h \in {"search"} |-> ""]
    /\ swrCache = [k \in SearchKeys |-> SwrIdle]
    /\ FETCH = [k \in SearchKeys |-> NoFetch]
    /\ requests = <<>>
    /\ timers = <<>>
    /\ sent = 0
    /\ answers = [k \in SearchKeys |-> {}]

SearchUnchanged ==
    UNCHANGED <<now, ticks, quotaFull, lastOp, setAt, writes, cat, input, output,
                view, apiKey, selectedStock, permanentlyFailedStocks>>

\* handleSearchSubmit: setSearchQuery(trimmedQuery)
SubmitSearch(q) ==
    /\ q # ""
    /\ q # searchQuery
    /\ SearchBecomes(renderSearch([SearchHere EXCEPT !.searchQuery = q]))
    /\ SearchUnchanged

\* the network answers request i; full: localStorage.setItem throws while
\* the fetcher caches this response
SearchRespond(i, response, full) ==
    /\ LET req == requests[i]
           f == searchFetcherEnd(storage, now, full, req.query, SearchLimit, response)
           S0 == [SearchHere EXCEPT
                     !.requests = Without(@, i),
                     !.storage = f.st,
                     !.answers[req.key] =
                         @ \cup {[status |-> response.status, out |-> f.out]}]
       IN  SearchBecomes(renderSearch(
               IF f.out = "return" THEN searchSucceeded(S0, req, f.data)
               ELSE searchFailed(S0, req, f.error, response.status)))
    /\ SearchUnchanged

\* retry timer j fires: the revalidator of the hook subscribed to the key
\* runs, if there is one
SearchTimerFire(j) ==
    /\ LET tm == timers[j]
           S0 == [SearchHere EXCEPT !.timers = Without(@, j)]
       IN  SearchBecomes(IF keyRef["search"] = tm.key
                         THEN revalidateSearch(S0, tm.key, searchQuery, tm.retryCount,
                                               tm.status)
                         ELSE S0)
    /\ SearchUnchanged

\* past the dedup interval / past the cache duration; pending retry timers
\* (seconds) fire first
SearchClockSteps == {searchDedupingInterval, durations("stockSearch")}

SearchTick(d) ==
    /\ ticks < MaxSearchTicks
    /\ timers = <<>>
    /\ now' = now + d
    /\ ticks' = ticks + 1
    /\ UNCHANGED <<storage, quotaFull, lastOp, setAt, writes, cat, errVars, hookVars>>

SearchNext ==
    \/ \E q \in SearchQueries : SubmitSearch(q)
    \/ \E i \in DOMAIN requests :
          \E response \in SearchResponses(requests[i].query), full \in BOOLEAN :
              SearchRespond(i, response, full)
    \/ \E j \in DOMAIN timers : SearchTimerFire(j)
    \/ \E d \in SearchClockSteps : SearchTick(d)

SpecSearch == SearchInit /\ [][SearchNext]_vars

(***************************************************************************)
(* Claims on the cache service (SpecCache).                                *)
(***************************************************************************)
\* a well-formed envelope under (type, identifier) whose age is within /
\* beyond the duration of the category
EnvelopeAt(type, identifier) ==
    /\ buildKey(type, identifier) \in DOMAIN storage
    /\ storage[buildKey(type, identifier)].kind = "json"
    /\ storage[buildKey(type, identifier)].hasTimestamp

ValidEntry(type, identifier) ==
    /\ EnvelopeAt(type, identifier)
    /\ now - storage[buildKey(type, identifier)].timestamp <= durations(type)

ExpiredEntry(type, identifier) ==
    /\ EnvelopeAt(type, identifier)
    /\ now - storage[buildKey(type, identifier)].timestamp > durations(type)

\* C7 as stated: if setCache(c, i, d) ran at clock T and no set or clear of the
\* key followed, hasValidCache(c, i) is true exactly while now - T <= duration(c).
C7_ValidFromEverySet ==
    \A i \in CacheIds(cat) :
        setAt[buildKey(cat, i)].at >= 0 =>
            hasValidCache(storage, now, cat, i).ret
                = (now - setAt[buildKey(cat, i)].at <= durations(cat))

\* C7 amended: the same, for a setCache whose storage write succeeded (a write
\* that throws is swallowed and stores nothing).
C7_ValidFromStoredSet ==
    \A i \in CacheIds(cat) :
        (setAt[buildKey(cat, i)].at >= 0 /\ setAt[buildKey(cat, i)].stored) =>
            hasValidCache(storage, now, cat, i).ret
                = (now - setAt[buildKey(cat, i)].at <= durations(cat))

\* hasValidCache has just answered true exactly at the end of the validity window
C7_Witness ==
    /\ lastOp.op = "hasValidCache"
    /\ lastOp.ret = TRUE
    /\ setAt[buildKey(cat, lastOp.id)].stored
    /\ now - setAt[buildKey(cat, lastOp.id)].at = durations(cat)

\* C8: a hasValidCache or getCache that finds its entry expired removes that
\* key and nothing else; a read of an unexpired (or absent) entry leaves
\* storage unchanged.
C8_LazyEviction ==
    [][\A i \in CacheIds(cat) :
          (lastOp'.op \in {"hasValidCache", "getCache"} /\ lastOp'.id = i) =>
              IF ExpiredEntry(cat, i)
              THEN /\ buildKey(cat, i) \notin DOMAIN storage'
                   /\ DOMAIN storage' = DOMAIN storage \ {buildKey(cat, i)}
                   /\ \A k \in DOMAIN storage' : storage'[k] = storage[k]
              ELSE storage' = storage]_vars

\* a read has just evicted an expired entry while another entry stays stored
C8_Witness ==
    /\ lastOp.op \in {"hasValidCache", "getCache"}
    /\ setAt[buildKey(cat, lastOp.id)].stored
    /\ now - setAt[buildKey(cat, lastOp.id)].at > durations(cat)
    /\ buildKey(cat, lastOp.id) \notin DOMAIN storage
    /\ \E i \in CacheIds(cat) : ValidEntry(cat, i)

\* C9: with a valid success envelope and no valid Failure Record for the pair,
\* a search, quote or history fetch returns the cached data and issues no
\* network request.
C9_CacheHitSkipsNetwork ==
    [][(/\ lastOp'.op = "fetch"
        /\ ValidEntry(cat, SuccessId(cat))
        /\ ~ValidEntry(cat, failedId(SuccessId(cat))))
       => /\ lastOp'.ret = "return"
          /\ lastOp'.data = storage[buildKey(cat, SuccessId(cat))].data]_vars

\* a fetch has just been served from a valid envelope next to an expired Failure Record
C9_Witness ==
    /\ lastOp.op = "fetch"
    /\ lastOp.ret = "return"
    /\ ValidEntry(cat, SuccessId(cat))
    /\ setAt[buildKey(cat, failedId(CacheSymbol))].stored
    /\ ~ValidEntry(cat, failedId(CacheSymbol))

\* C17 as stated: after setCache(c, i, d), with no later set or clear of the
\* key and before duration(c) has elapsed, getCache(c, i) returns d.
C17_RoundTrip ==
    \A i \in CacheIds(cat) :
        (/\ setAt[buildKey(cat, i)].at >= 0
         /\ now - setAt[buildKey(cat, i)].at < durations(cat))
        => /\ getCache(storage, now, cat, i).ret = setAt[buildKey(cat, i)].data
           /\ (lastOp.op = "getCache" /\ lastOp.id = i)
                  => lastOp.ret = setAt[buildKey(cat, i)].data

\* C17 amended: the same, for a setCache whose storage write succeeded.
C17_RoundTripStored ==
    \A i \in CacheIds(cat) :
        (/\ setAt[buildKey(cat, i)].at >= 0
         /\ setAt[buildKey(cat, i)].stored
         /\ now - setAt[buildKey(cat, i)].at < durations(cat))
        => /\ getCache(storage, now, cat, i).ret = setAt[buildKey(cat, i)].data
           /\ (lastOp.op = "getCache" /\ lastOp.id = i)
                  => lastOp.ret = setAt[buildKey(cat, i)].data

\* getCache has just returned the data of a stored setCache, some time after
\* the write and inside its validity window
C17_Witness ==
    /\ lastOp.op = "getCache"
    /\ setAt[buildKey(cat, lastOp.id)].stored
    /\ setAt[buildKey(cat, lastOp.id)].data # Undefined
    /\ lastOp.ret = setAt[buildKey(cat, lastOp.id)].data
    /\ now - setAt[buildKey(cat, lastOp.id)].at \in 1..(durations(cat) - 1)

\* C18 as stated: after two setCache calls on one key, d1 at T1 and then d2 at
\* T2, the key holds one envelope, with data d2 and timestamp T2: getCache
\* returns d2 and hasValidCache is true exactly while now - T2 <= duration.
C18_Overwrite ==
    \A i \in CacheIds(cat) :
        LET k == buildKey(cat, i)
        IN  setAt[k].sets >= 2 =>
                IF now - setAt[k].at <= durations(cat)
                THEN /\ k \in DOMAIN storage
                     /\ storage[k] = JSONstringifyEnvelope(setAt[k].data, setAt[k].at)
                     /\ getCache(storage, now, cat, i).ret = setAt[k].data
                     /\ hasValidCache(storage, now, cat, i).ret
                ELSE /\ getCache(storage, now, cat, i).ret = Null
                     /\ ~hasValidCache(storage, now, cat, i).ret

\* C18 amended: the same, when the storage write of the second setCache
\* succeeded.
C18_OverwriteStored ==
    \A i \in CacheIds(cat) :
        LET k == buildKey(cat, i)
        IN  (setAt[k].sets >= 2 /\ setAt[k].stored) =>
                IF now - setAt[k].at <= durations(cat)
                THEN /\ k \in DOMAIN storage
                     /\ storage[k] = JSONstringifyEnvelope(setAt[k].data, setAt[k].at)
                     /\ getCache(storage, now, cat, i).ret = setAt[k].data
                     /\ hasValidCache(storage, now, cat, i).ret
                ELSE /\ getCache(storage, now, cat, i).ret = Null
                     /\ ~hasValidCache(storage, now, cat, i).ret

\* a key was set with d1 at T1 and with another value d2 at a later T2; T1's
\* window is over, T2's is not, and getCache has just returned d2
C18_Witness ==
    /\ lastOp.op = "getCache"
    /\ setAt[buildKey(cat, lastOp.id)].sets = 2
    /\ setAt[buildKey(cat, lastOp.id)].stored
    /\ setAt[buildKey(cat, lastOp.id)].prevData # setAt[buildKey(cat, lastOp.id)].data
    /\ setAt[buildKey(cat, lastOp.id)].prevAt >= 0
    /\ now - setAt[buildKey(cat, lastOp.id)].prevAt > durations(cat)
    /\ now - setAt[buildKey(cat, lastOp.id)].at <= durations(cat)
    /\ lastOp.ret = setAt[buildKey(cat, lastOp.id)].data

(***************************************************************************)
(* Claims on the cache service over a storage with leftovers (SpecStored). *)
(***************************************************************************)
\* C16: clearAllCache leaves no key that starts with the prefix, whatever
\* category it belongs to and whether it is an envelope or a Failure Record,
\* and every other key keeps its text.
C16_ClearAllFrame ==
    [][DoClearAllCache =>
          /\ \A k \in DOMAIN storage' : ~startsWith(k, keyPrefix)
          /\ \A k \in DOMAIN storage :
                ~startsWith(k, keyPrefix) =>
                    k \in DOMAIN storage' /\ storage'[k] = storage[k]]_vars

\* only the foreign key is left, after leftovers of the other categories
\* (which nothing but clearAllCache removes) and entries written in this
\* session were stored
C16_Witness ==
    /\ DOMAIN storage = {OtherKey}
    /\ storage[OtherKey] = GarbageText
    /\ writes = MaxWrites
    /\ \A k \in CacheKeys : setAt[k] = NeverSet

\* a stored text that is not a {data, timestamp} envelope
Malformed(text) == text.kind # "json" \/ ~text.hasData \/ ~text.hasTimestamp

\* C19 as stated: a hasValidCache on a key that holds a malformed text
\* returns false and a getCache on it returns null.
C19_MalformedIsAbsent ==
    \A i \in CacheIds(cat) :
        (/\ buildKey(cat, i) \in DOMAIN storage
         /\ Malformed(storage[buildKey(cat, i)])
         /\ lastOp.op \in {"hasValidCache", "getCache"}
         /\ lastOp.id = i)
        => IF lastOp.op = "hasValidCache" THEN lastOp.ret = FALSE
           ELSE lastOp.ret = Null

(***************************************************************************)
(* Claims on the cache wrappers (SpecKeys).                                *)
(***************************************************************************)
\* what the four readers of utils/stock-quote-cache.ts answer for a pair
SuccessReads(st, t, c, symbol) ==
    <<hasCachedSuccess(st, t, c, symbol).ret, getCachedSuccess(st, t, c, symbol).ret>>

FailureReads(st, t, c, symbol) ==
    <<hasCachedFailure(st, t, c, symbol).ret, getCachedFailure(st, t, c, symbol).ret>>

OtherPairsKeep(c, s) ==
    \A c2 \in Categories, t \in KeySymbols :
        <<c2, t>> # <<c, s>> =>
            /\ SuccessReads(storage', now', c2, t) = SuccessReads(storage, now, c2, t)
            /\ FailureReads(storage', now', c2, t) = FailureReads(storage, now, c2, t)

\* C21 as stated: a cacheSuccess or cacheFailure on (c, s) changes no answer
\* of the four readers for any other pair (c', t); a cacheSuccess leaves the
\* failure answers of its own pair and a cacheFailure its success answers.
C21_EntriesIsolated ==
    [][\A s \in KeySymbols :
          /\ (\E v \in 1..2 : DoSetCache(cat, s, v))
                => /\ OtherPairsKeep(cat, s)
                   /\ FailureReads(storage', now', cat, s) = FailureReads(storage, now, cat, s)
          /\ DoCacheFailure(cat, s, FailureText)
                => /\ OtherPairsKeep(cat, s)
                   /\ SuccessReads(storage', now', cat, s) = SuccessReads(storage, now, cat, s)]_vars

(***************************************************************************)
(* Claims on the error classifier (SpecErr).                               *)
(***************************************************************************)
PolicyTable(status) ==
    CASE status = 401 -> <<"UnauthorizedError", FALSE>>
      [] status = 402 -> <<"PaymentRequiredError", FALSE>>
      [] status = 403 -> <<"ForbiddenError", FALSE>>
      [] status = 404 -> <<"NotFoundError", FALSE>>
      [] status >= 500 -> <<"ServerError", TRUE>>
      [] OTHER -> <<"ClientError", FALSE>>

\* C10: handleHttpError always throws, and the thrown error carries the
\* response status with the (name, retryable) pair of the policy table.
C10_PolicyTable ==
    input.op = "handleHttpError" =>
        /\ output.op = "throw"
        /\ output.thrown.hasStatus
        /\ output.thrown.status = input.response.status
        /\ output.thrown.hasRetryable
        /\ <<output.thrown.name, output.thrown.retryable>>
               = PolicyTable(input.response.status)

\* an unclassified client status has been classified
C10_Witness ==
    /\ input.op = "handleHttpError"
    /\ input.response.status = 429
    /\ output.thrown.name = "ClientError"

(***************************************************************************)
(* Claims on the chart view (Spec).                                        *)
(***************************************************************************)
InFlight(key) ==
    {i \in DOMAIN requests :
        /\ requests[i].phase = "network"
        /\ <<requests[i].hook, requests[i].symbol>> = key}

Pending(key) ==
    {i \in DOMAIN requests : <<requests[i].hook, requests[i].symbol>> = key}

TimersOf(key) ==
    {j \in DOMAIN timers : <<timers[j].hook, timers[j].symbol>> = key}

\* the symbol the mounted view passes to the hook ("" = hook not called with one)
hookArg(hook) ==
    IF selectedStock = "" THEN ""
    ELSE IF view = "chart"
         THEN IF hook = "history" THEN selectedStock ELSE StockChart(Here).quoteArg
         ELSE IF hook = "quote" THEN selectedStock ELSE ""

hookResult(hook, symbol) ==
    IF hook = "history" THEN useStockHistory(Here, symbol)
    ELSE useStockQuote(Here, symbol)

Answered503 == [status |-> 503, out |-> "throw"]
Answered402 == [status |-> 402, out |-> "throw"]

\* C1 as stated: once the network has answered a (category, symbol) pair with
\* 401, 402, 403 or 404, no later fetch attempt of this page for that pair
\* issues a network request (the process that saw the failure is the page of
\* the run, so the condition of the claim holds throughout).
C1_NoRequestAfterRefusal ==
    \A i \in DOMAIN requests :
        requests[i].phase = "network" => ~requests[i].refused

\* C2 as stated: a hook whose request is short-circuited - its symbol is in the
\* in-memory set, or its fetcher replayed a valid Failure Record - hands its
\* caller a non-null error, with the recorded message when the record is there.
C2_ShortCircuitShowsError ==
    Quiet =>
        \A h \in Hooks :
            LET s == hookArg(h)
            IN  (/\ s # ""
                 /\ \/ lowerCased[s] \in permanentlyFailedStocks[h]
                    \/ /\ ValidEntry(categoryOf(h), failedId(s))
                       /\ swrCache[<<h, s>>].error # Undefined
                       /\ swrCache[<<h, s>>].error.name = "CachedFailure")
                => /\ hookResult(h, s).error # Undefined
                   /\ ValidEntry(categoryOf(h), failedId(s)) =>
                        hookResult(h, s).error.message
                            = storage[buildKey(categoryOf(h), failedId(s))].data.error

\* C3 as stated: once the history request of the selected symbol has been
\* answered 402 and nothing is left to wait for (no request, no timer, no quote
\* request that failed), the chart shows the fallbackMode quote data.
C3_FallbackObserved ==
    \A s \in Symbols :
        (/\ view = "chart"
         /\ selectedStock = s
         /\ answers[<<"history", s>>] = {Answered402}
         /\ \A a \in answers[<<"quote", s>>] : a.out = "return"
         /\ requests = <<>>
         /\ timers = <<>>)
        => /\ StockChart(Here).shows = "QuoteFallbackCard"
           /\ StockChart(Here).quoteData.fallbackMode

\* C4: a pair answered only with 5xx is retried below the ceiling of 2 and no
\* further: once nothing is pending for it the subscribed caller sees the
\* server error, no Failure Record of the pair is stored, and the symbol is in
\* the in-memory set only if a spelling of it was refused with a 4xx.
C4_ServerErrorNotMemoized ==
    /\ \A i \in DOMAIN requests : requests[i].retryCount < 2
    /\ \A j \in DOMAIN timers : timers[j].retryCount < 2
    /\ \A h \in Hooks, s \in Symbols :
          (/\ answers[<<h, s>>] # {}
           /\ \A a \in answers[<<h, s>>] : a.status >= 500)
          => /\ buildKey(categoryOf(h), failedId(s)) \notin DOMAIN storage
             /\ (lowerCased[s] \in permanentlyFailedStocks[h]
                    => \E s2 \in Symbols :
                          /\ lowerCased[s2] = lowerCased[s]
                          /\ \E a \in answers[<<h, s2>>] : a.status \in 400..499)
             /\ (keyRef[h] = s /\ Pending(<<h, s>>) = {} /\ TimersOf(<<h, s>>) = {})
                    => /\ useSWR(Here, h, s).error # Undefined
                       /\ useSWR(Here, h, s).error.name = "ServerError"
                       /\ ~useSWR(Here, h, s).isLoading

\* the retry of a 503 has been answered 503 as well, nothing is memoized, and a
\* fresh request for the pair is on the network again
C4_Witness ==
    \E h \in Hooks, s \in Symbols :
        /\ answers[<<h, s>>] = {Answered503}
        /\ sent = 3
        /\ timers = <<>>
        /\ \E i \in InFlight(<<h, s>>) : requests[i].retryCount = 0
        /\ Len(requests) = 1
        /\ swrCache[<<h, s>>].error.name = "ServerError"

\* C5 as stated: a quote hook whose first two network attempts were both
\* answered 503 goes on to a third attempt (its retry timer is pending or the
\* attempt is on the network).
C5_ThirdAttempt ==
    \A s \in Symbols :
        (/\ Quiet
         /\ keyRef["quote"] = s
         /\ sent = 2
         /\ answers[<<"quote", s>>] = {Answered503}
         /\ \A k \in SwrKeys \ {<<"quote", s>>} : answers[k] = {}
         /\ InFlight(<<"quote", s>>) = {})
        => TimersOf(<<"quote", s>>) # {}

\* C6 as stated: at most one network request per key is in flight.
C6_OneInFlight ==
    \A k \in SwrKeys : Cardinality(InFlight(k)) <= 1

\* the storage key of the Failure Record of the pair a hook fetches
FailureKey(hook, symbol) == buildKey(categoryOf(hook), failedId(symbol))

\* st holds no Failure Record that storage does not hold with the same text
NoRecordWritten(st) ==
    \A h \in Hooks, s \in Symbols :
        FailureKey(h, s) \in DOMAIN st =>
            /\ FailureKey(h, s) \in DOMAIN storage
            /\ st[FailureKey(h, s)] = storage[FailureKey(h, s)]

\* C11: a Failure Record is stored for a pair only if the network answered
\* that pair with 401, 402, 403 or 404 before; a fetcher that handles any
\* other answer (5xx, another 4xx, a 2xx body that fails validation, a
\* rejected fetch) or that stops before the request (cached result, missing
\* API key) creates no Failure Record and changes none.
C11_RecordOnlyAfterRefusal ==
    /\ \A h \in Hooks, s \in Symbols :
          FailureKey(h, s) \in DOMAIN storage =>
              \E a \in answers[<<h, s>>] : isPermanentError(a.status)
    /\ \A h \in Hooks, s \in Symbols, full \in BOOLEAN :
          /\ NoRecordWritten(fetcherStart(h, storage, s).st)
          /\ \A response \in Responses(s) :
                ~isPermanentError(response.status) =>
                    NoRecordWritten(fetcherEnd(h, storage, full, s, response).st)

\* one spelling has its Failure Record while the other, answered only with
\* statuses outside 401-404, has none
C11_Witness ==
    \E h \in Hooks, s \in Symbols, s2 \in Symbols :
        /\ FailureKey(h, s) \in DOMAIN storage
        /\ answers[<<h, s2>>] # {}
        /\ \A a \in answers[<<h, s2>>] : a.status \in {0, 400, 503}
        /\ FailureKey(h, s2) \notin DOMAIN storage

\* the statuses handleHttpError leaves unclassified: 4xx other than 401..404
UnclassifiedClientError(status) ==
    status \in 400..499 /\ ~isPermanentError(status)

\* C13 as stated: a symbol whose requests of a hook were all answered with an
\* unclassified 4xx status (400 here), in every spelling, has no Failure Record
\* and is not in the in-memory set of the hook, and the next request for it
\* is not short-circuited: the hook called with it still has a key to fetch.
C13_ClientErrorNotMemoized ==
    \A h \in Hooks, s \in Symbols :
        (/\ answers[<<h, s>>] # {}
         /\ \A s2 \in Symbols :
               lowerCased[s2] = lowerCased[s] =>
                   \A a \in answers[<<h, s2>>] : UnclassifiedClientError(a.status))
        => /\ FailureKey(h, s) \notin DOMAIN storage
           /\ lowerCased[s] \notin permanentlyFailedStocks[h]
           /\ useKey(Here, h, s) # ""

\* C14 as stated: once the history request of the selected symbol has been
\* answered 402, the fallback quote request of the chart for the same symbol
\* has failed as well, and nothing is left to wait for, the chart shows the
\* error view.
C14_BothFailedShowsError ==
    \A s \in Symbols :
        (/\ view = "chart"
         /\ selectedStock = s
         /\ Answered402 \in answers[<<"history", s>>]
         /\ answers[<<"quote", s>>] # {}
         /\ \A a \in answers[<<"quote", s>>] : a.out = "throw"
         /\ requests = <<>>
         /\ timers = <<>>)
        => /\ StockChart(Here).shows = "ChartError"
           /\ StockChart(Here).error # Undefined

\* a 2xx answer the fetcher rejected: the body was an error envelope or did
\* not pass the shape validation
RejectedBody == [status |-> 200, out |-> "throw"]

InvalidBodies == {ErrorBody, StringBody}

\* C15: a 2xx response whose body is an error envelope or fails validation
\* makes the fetcher throw a plain error (with the embedded message for an
\* envelope) and leaves storage as it was; a pair that was only ever answered
\* this way, in every spelling, has no success entry, no Failure Record, no
\* entry in the in-memory set and no retry, and its subscribed hook shows the
\* error.
C15_RejectedBodyNotMemoized ==
    /\ \A h \in Hooks, s \in Symbols, full \in BOOLEAN, b \in InvalidBodies :
          LET f == fetcherEnd(h, storage, full, s, [status |-> 200, body |-> b])
          IN  /\ f.out = "throw"
              /\ f.error.name = "Error"
              /\ ~f.error.hasStatus /\ ~f.error.hasRetryable
              /\ b = ErrorBody => f.error.message = ErrorBody.errorMessage
              /\ f.st = storage
    /\ \A h \in Hooks, s \in Symbols :
          (/\ answers[<<h, s>>] # {}
           /\ \A s2 \in Symbols :
                 lowerCased[s2] = lowerCased[s] => answers[<<h, s2>>] \subseteq {RejectedBody})
          => /\ buildKey(categoryOf(h), s) \notin DOMAIN storage
             /\ FailureKey(h, s) \notin DOMAIN storage
             /\ lowerCased[s] \notin permanentlyFailedStocks[h]
             /\ TimersOf(<<h, s>>) = {}
             /\ \A i \in Pending(<<h, s>>) : requests[i].retryCount = 0
             /\ (keyRef[h] = s /\ Pending(<<h, s>>) = {})
                    => /\ useSWR(Here, h, useKey(Here, h, s)).error # Undefined
                       /\ useSWR(Here, h, useKey(Here, h, s)).error.name = "Error"

\* the quote request of the selected symbol was answered 200 with a rejected
\* body, nothing is pending and the hook shows the error; a later selection
\* of another spelling was answered the same way
C15_Witness ==
    \E s \in Symbols, s2 \in Symbols :
        /\ s2 # s
        /\ answers[<<"quote", s>>] = {RejectedBody}
        /\ answers[<<"quote", s2>>] = {RejectedBody}
        /\ keyRef["quote"] = s
        /\ requests = <<>>
        /\ swrCache[<<"quote", s>>].error # Undefined
        /\ swrCache[<<"quote", s>>].error.message \in
               {ErrorBody.errorMessage, "No quote data found in API response"}

Answered200 == [status |-> 200, out |-> "return"]

\* C20: a setCache whose storage write fails returns normally and leaves the
\* text of every key as it was; a quote or history fetch whose response was
\* good returns the transformed data all the same, and the hook that is
\* subscribed to it hands the data to its caller.
C20_WriteFailureSwallowed ==
    /\ \A h \in Hooks, s \in Symbols :
          LET stored == fetcherEnd(h, storage, FALSE, s, [status |-> 200, body |-> Rows(s)])
              failed == fetcherEnd(h, storage, TRUE, s, [status |-> 200, body |-> Rows(s)])
          IN  /\ setCache(storage, now, TRUE, categoryOf(h), s, stored.data)
                     = [ret |-> Undefined, st |-> storage]
              /\ cacheFailure(storage, now, TRUE, categoryOf(h), s, FailureText).st = storage
              /\ failed.out = "return"
              /\ failed.data = stored.data
              /\ Truthy(failed.data)
              /\ failed.st = storage
    /\ \A h \in Hooks, s \in Symbols :
          (/\ answers[<<h, s>>] = {Answered200}
           /\ keyRef[h] = s
           /\ Pending(<<h, s>>) = {})
          => /\ Truthy(useSWR(Here, h, s).data)
             /\ useSWR(Here, h, s).data.symbol = s

\* the quote request was answered 200 while the storage refused the write:
\* the hook shows the data and the success key is not stored
C20_Witness ==
    \E s \in Symbols :
        /\ now = 0
        /\ answers[<<"quote", s>>] = {Answered200}
        /\ keyRef["quote"] = s
        /\ requests = <<>>
        /\ Truthy(useSWR(Here, "quote", s).data)
        /\ buildKey("stockDetails", s) \notin DOMAIN storage

\* C22: on a page without the API credential no request reaches the network,
\* storage stays as it was, both in-memory sets stay empty, no retry is
\* scheduled or made, and a hook whose fetch has settled shows the
\* configuration error and is not loading.
C22_MissingCredential ==
    ~apiKey =>
        /\ sent = 0
        /\ \A i \in DOMAIN requests :
              requests[i].phase # "network" /\ requests[i].retryCount = 0
        /\ timers = <<>>
        /\ storage = InitStorage
        /\ \A h \in Hooks : permanentlyFailedStocks[h] = {}
        /\ \A k \in SwrKeys : answers[k] = {}
        /\ \A h \in Hooks, s \in Symbols :
              (keyRef[h] = s /\ Pending(<<h, s>>) = {})
              => /\ useSWR(Here, h, useKey(Here, h, s)).error # Undefined
                 /\ useSWR(Here, h, useKey(Here, h, s)).error.message
                        = "API key is not configured"
                 /\ ~useSWR(Here, h, useKey(Here, h, s)).error.hasStatus
                 /\ useSWR(Here, h, useKey(Here, h, s)).data = Undefined
                 /\ ~useSWR(Here, h, useKey(Here, h, s)).isLoading

\* without the credential the history fetch of the chart has failed, the hook
\* shows the configuration error, and the symbol was selected a second time
\* after another one
C22_Witness ==
    \E s \in Symbols, s2 \in Symbols :
        /\ s2 # s
        /\ ~apiKey
        /\ view = "chart"
        /\ keyRef["history"] = s
        /\ requests = <<>>
        /\ swrCache[<<"history", s>>].error # Undefined
        /\ swrCache[<<"history", s>>].error.message = "API key is not configured"
        /\ swrCache[<<"history", s2>>].error # Undefined
        /\ now > 0

(***************************************************************************)
(* Claims on the search form (SpecSearch).                                 *)
(***************************************************************************)
\* C12 as stated, for the search request: no request on the network is the
\* automatic re-attempt of one that was answered 401, 402, 403 or 404, and no
\* retry timer is pending for such an answer.
C12_NoRetryAfterRefusal ==
    /\ \A i \in DOMAIN requests : ~isPermanentError(requests[i].after)
    /\ \A j \in DOMAIN timers : ~isPermanentError(timers[j].status)

\* what useStockSearch(searchQuery) returns to the form in this state
SearchResult ==
    useStockSearchRender(storage, now, searchQuery, SearchLimit,
                         useSearchSWR(SearchHere, keyRef["search"]))

\* the queries the hook does not search
ShortQueries == {q \in SearchQueries \cup {""} : Len(q) < 2}

\* the storage with an old entry put under the cache key of query q
WithStaleEntry(q) ==
    putItem(storage, buildKey("stockSearch", q \o "-" \o ToString(SearchLimit)),
            JSONstringifyEnvelope(EmptyArray, now - durations("stockSearch") - 1))

C24_SingleLetterSearched ==
    Len(searchQuery) = 1 =>
        \/ keyRef["search"] = searchKey(searchQuery, SearchLimit)
        \/ SearchResult.isCached

(***************************************************************************)
(* Claims on the user messages (SpecMsg).                                  *)
(***************************************************************************)
\* the status codes with a case of their own in the switch
DedicatedCodes == {400, 401, 403, 404, 429, 500, 502, 503, 504}

\* C25: for every status code getApiErrorMessage returns a record with the
\* code, a message, a non-empty userMessage and a boolean retryable; a code
\* without a case of its own gets the server text and retryable = TRUE from
\* 500 on, the client text and retryable = FALSE below.
C25_MessageTotal ==
    input.op = "getApiErrorMessage" =>
        /\ output.op = "return"
        /\ output.ret.code = input.statusCode
        /\ output.ret.status = input.statusCode
        /\ output.ret.userMessage # ""
        /\ output.ret.message # ""
        /\ output.ret.retryable \in BOOLEAN
        /\ input.statusCode \notin DedicatedCodes =>
              IF input.statusCode >= 500
              THEN /\ output.ret.userMessage = "Server error occurred. Please try again later."
                   /\ output.ret.name = "ServerError"
                   /\ output.ret.retryable
              ELSE /\ output.ret.userMessage = "An unexpected error occurred. Please try again."
                   /\ output.ret.name = "ClientError"
                   /\ ~output.ret.retryable

\* a code beyond the HTTP range has been given the server bucket
C25_Witness ==
    /\ input.op = "getApiErrorMessage"
    /\ input.statusCode > MaxStatus
    /\ input.originalMessage = ""
    /\ output.ret.name = "ServerError"
    /\ output.ret.retryable

(***************************************************************************)
(* Claims on the diagnostic accessor (SpecMeta).                           *)
(***************************************************************************)
\* C26: a getCacheMetadata call leaves storage as it was; on a missing key and
\* on text that does not parse it returns null; on an envelope with a
\* timestamp, expired or not, it returns age = now - timestamp, remaining =
\* duration - age and the timestamp.
C26_MetadataReadOnly ==
    [][\A i \in CacheIds(cat) :
          (lastOp'.op = "getCacheMetadata" /\ lastOp'.id = i) =>
              LET k == buildKey(cat, i)
              IN  /\ storage' = storage
                  /\ k \notin DOMAIN storage => lastOp'.ret = Null
                  /\ (k \in DOMAIN storage /\ storage[k].kind # "json")
                        => lastOp'.ret = Null
                  /\ (k \in DOMAIN storage /\ storage[k].kind = "json"
                                            /\ storage[k].hasTimestamp)
                        => lastOp'.ret =
                              [age |-> now - storage[k].timestamp,
                               remaining |-> durations(cat) - (now - storage[k].timestamp),
                               timestamp |-> storage[k].timestamp]]_vars

\* the metadata of an expired entry has just been read and the entry is still
\* stored, next to the malformed leftover or a missing key
C26_Witness ==
    /\ lastOp.op = "getCacheMetadata"
    /\ buildKey(cat, lastOp.id) \in DOMAIN storage
    /\ setAt[buildKey(cat, lastOp.id)].stored
    /\ now - setAt[buildKey(cat, lastOp.id)].at > durations(cat)
    /\ lastOp.ret # Null
    /\ lastOp.ret.timestamp = setAt[buildKey(cat, lastOp.id)].at
    /\ lastOp.ret.remaining < 0
    /\ \E i \in CacheIds(cat) :
          \/ buildKey(cat, i) \notin DOMAIN storage
          \/ Malformed(storage[buildKey(cat, i)])

(***************************************************************************)
(* Claims on the fallback trigger and the retry budget (Spec).             *)
(***************************************************************************)
PlanSuffix == " - API usage limit reached"

EndsWith(text, suffix) ==
    /\ Len(text) >= Len(suffix)
    /\ SubSeq(text, Len(text) - Len(suffix) + 1, Len(text)) = suffix

\* the plan-required failure: thrown fresh for a 402, or replayed from the
\* Failure Record a 402 wrote
PlanRequired(error) ==
    /\ error # Undefined
    /\ \/ error.name = "PaymentRequiredError"
       \/ error.name = "CachedFailure" /\ EndsWith(error.message, PlanSuffix)

HistoryEnded(s) ==
    /\ view = "chart"
    /\ selectedStock = s
    /\ Quiet
    /\ \A i \in DOMAIN requests :
          ~(requests[i].hook = "history" /\ requests[i].symbol = s)

QuoteFetchInitiated(s) ==
    \/ keyRef["quote"] = s
    \/ answers[<<"quote", s>>] # {}
    \/ swrCache[<<"quote", s>>] # SwrIdle
    \/ \E i \in DOMAIN requests :
          requests[i].hook = "quote" /\ requests[i].symbol = s

\* C27 as stated: when the history request of the selected symbol has ended
\* in the plan-required failure, fresh from a 402 or replayed from the Failure
\* Record of an earlier 402, a quote fetch for the same symbol has been
\* initiated.
C27_FallbackTriggered ==
    \A s \in Symbols :
        (HistoryEnded(s) /\ PlanRequired(swrCache[<<"history", s>>].error))
            => QuoteFetchInitiated(s)

\* what is left of the budget of the chains of a key: a request with retry
\* count r may be followed by a timer and a request with count r + 1, up to
\* maxRetries
RECURSIVE ChainWeight(_, _, _, _)
ChainWeight(seq, key, unit, n) ==
    IF n = 0 THEN 0
    ELSE ChainWeight(seq, key, unit, n - 1)
         + IF <<seq[n].hook, seq[n].symbol>> = key
           THEN 2 * (maxRetries(seq[n].hook) - seq[n].retryCount) + unit
           ELSE 0

Budget(reqs, tms, key) ==
    ChainWeight(reqs, key, 1, Len(reqs)) + ChainWeight(tms, key, 2, Len(tms))

Of(seq, key) == {i \in DOMAIN seq : <<seq[i].hook, seq[i].symbol>> = key}

TopLevel(reqs, key) == {i \in Of(reqs, key) : reqs[i].retryCount = 0}

\* attempt retryCount + 1 of a chain is within 1 + maxRetries, for the requests
\* and for the attempts the timers will start; a subscribed key with nothing
\* pending is not loading
RetryBudgetKept ==
    /\ \A i \in DOMAIN requests :
          requests[i].retryCount + 1 <= 1 + maxRetries(requests[i].hook)
    /\ \A j \in DOMAIN timers :
          timers[j].retryCount + 1 <= 1 + maxRetries(timers[j].hook)
    /\ \A h \in Hooks, s \in Symbols :
          (Quiet /\ keyRef[h] = s /\ Pending(<<h, s>>) = {} /\ TimersOf(<<h, s>>) = {})
              => ~useSWR(Here, h, s).isLoading

\* unless a new top-level request of the key starts, a step never adds to the
\* budget of the key, and a step that answers a request or fires a timer of
\* the key takes from it
RetryBudgetSpent ==
    \A h \in Hooks, s \in Symbols :
        LET key == <<h, s>>
        IN  Cardinality(TopLevel(requests', key)) <= Cardinality(TopLevel(requests, key))
            => /\ Budget(requests', timers', key) <= Budget(requests, timers, key)
               /\ (\/ Cardinality(Of(requests', key)) # Cardinality(Of(requests, key))
                   \/ Cardinality(Of(timers', key)) # Cardinality(Of(timers, key)))
                    => Budget(requests', timers', key) < Budget(requests, timers, key)

\* C28: whatever the answers (200, 4xx, 5xx, rejected bodies, network errors),
\* the attempts of one top-level quote or history request number at most
\* 1 + maxRetries: every step of its chain uses up budget that is never
\* negative, and once nothing of the chain is pending the subscribed hook is
\* not loading and no retry timer is left.
C28_BoundedAttempts ==
    []RetryBudgetKept /\ [][RetryBudgetSpent]_vars

\* a chain has run to its end: two attempts answered 503, nothing pending, no
\* timer, the subscribed hook shows the error and is not loading
C28_Witness ==
    \E h \in Hooks, s \in Symbols :
        /\ answers[<<h, s>>] = {Answered503}
        /\ sent = 2
        /\ requests = <<>>
        /\ timers = <<>>
        /\ keyRef[h] = s
        /\ swrCache[<<h, s>>].error # Undefined
        /\ ~useSWR(Here, h, s).isLoading

\* C29 as stated: in no state of the quote and history flow are a valid
\* success envelope and a valid Failure Record stored for the same category and
\* symbol.
C29_SuccessXorFailure ==
    \A h \in Hooks, s \in Symbols :
        ~(/\ ValidEntry(categoryOf(h), s)
          /\ ValidEntry(categoryOf(h), failedId(s)))

(***************************************************************************)
(* Claims on the in-memory sets (SpecClear).                               *)
(***************************************************************************)
\* C30: no step takes a symbol out of a hook's permanentlyFailedStocks - not
\* a clear of the cache, not the expiry or the removal of the Failure Record,
\* not a success - and no step starts a fetch of a hook for a symbol that is
\* in the hook's set.
C30_SetOnlyGrows ==
    [][\A h \in Hooks :
          /\ permanentlyFailedStocks[h] \subseteq permanentlyFailedStocks'[h]
          /\ \A s \in Symbols :
                lowerCased[s] \in permanentlyFailedStocks[h]
                    => Cardinality(Of(requests', <<h, s>>))
                           <= Cardinality(Of(requests, <<h, s>>))]_vars

\* the symbol is in the history set, its Failure Record has been cleared
\* away, the symbol is selected and nothing is fetched
C30_Witness ==
    \E s \in Symbols :
        /\ lowerCased[s] \in permanentlyFailedStocks["history"]
        /\ view = "chart"
        /\ selectedStock = s
        /\ writes = 1
        /\ answers[<<"history", s>>] # {}
        /\ ~ValidEntry("stockHistory1Day", failedId(s))
        /\ \A s2 \in Symbols : ~ValidEntry("stockHistory1Day", failedId(s2))
        /\ keyRef["history"] = ""
        /\ requests = <<>>
        /\ sent < MaxRequests

(***************************************************************************)
(* Claims on the identifiers and the categories of the memoization (Spec). *)
(***************************************************************************)
\* no request of the hook for the symbol has failed so far
NeverFailed(h, t) ==
    /\ swrCache[<<h, t>>].error = Undefined
    /\ \A a \in answers[<<h, t>>] : a.out = "return"

\* C31 as stated: the failure recorded for a symbol s short-circuits no
\* request for another string t, be it s in another letter case: a hook that
\* is called with a symbol none of whose own requests has failed passes SWR
\* the key of that symbol.
C31_OpaqueIdentifiers ==
    \A h \in Hooks, t \in Symbols :
        (Quiet /\ hookArg(h) = t /\ NeverFailed(h, t)) => keyRef[h] = t

(***************************************************************************)
(* Claims on the life of a Failure Record (SpecCache).                     *)
(***************************************************************************)
\* the quote or history fetcher has just run with a Failure Record of the
\* symbol in storage
FetchOverRecord ==
    /\ lastOp'.op = "fetch"
    /\ cat \in {"stockDetails", "stockHistory1Day"}
    /\ EnvelopeAt(cat, failedId(CacheSymbol))

RecordKey == buildKey(cat, failedId(CacheSymbol))

OwnMemoOnly ==
    \A h \in Hooks, s \in Symbols :
        /\ lowerCased[s] \in permanentlyFailedStocks[h]
              => \E s2 \in Symbols :
                    /\ lowerCased[s2] = lowerCased[s]
                    /\ \E a \in answers[<<h, s2>>] : a.out = "throw"
        /\ buildKey(categoryOf(h), failedId(s)) \in DOMAIN storage
              => \E a \in answers[<<h, s>>] : isPermanentError(a.status)

\* a step in which a request of one hook is answered leaves the set of the
\* other hook and the Failure Records of the other category as they are
OtherMemoKept ==
    \A h \in Hooks :
        (\E g \in Hooks \ {h}, s \in Symbols : answers'[<<g, s>>] # answers[<<g, s>>])
            => /\ permanentlyFailedStocks'[h] \subseteq permanentlyFailedStocks[h]
               /\ \A s \in Symbols :
                     LET key == buildKey(categoryOf(h), failedId(s))
                     IN  key \in DOMAIN storage'
                            => key \in DOMAIN storage /\ storage'[key] = storage[key]

QuoteStarts(s) ==
    /\ view = "chart"
    /\ Cardinality(Of(requests', <<"quote", s>>))
          > Cardinality(Of(requests, <<"quote", s>>))

\* C34 as stated: in the chart view a quote request for a symbol is issued
\* only while the history request for the symbol has failed with status 402:
\* never while that request is still loading or pending, has succeeded, or
\* has failed with another error.
C34_QuoteOnlyAfter402 ==
    [][\A s \in Symbols :
          QuoteStarts(s)
              => /\ swrCache'[<<"history", s>>].error # Undefined
                 /\ swrCache'[<<"history", s>>].error.hasStatus
                 /\ swrCache'[<<"history", s>>].error.status = 402
                 /\ ~swrCache'[<<"history", s>>].isLoading
                 /\ Of(requests', <<"history", s>>) = {}]_vars

\* C34 amended: a quote request is issued only while the error the history
\* hook holds for the symbol is a 402 failure; the history request may be
\* under revalidation at that time.
C34_QuoteOnlyOn402Error ==
    [][\A s \in Symbols :
          QuoteStarts(s)
              => /\ swrCache'[<<"history", s>>].error # Undefined
                 /\ swrCache'[<<"history", s>>].error.hasStatus
                 /\ swrCache'[<<"history", s>>].error.status = 402
                 /\ Answered402 \in answers'[<<"history", s>>]]_vars

\* the quote request of the fallback is on the network while the history
\* hook holds the 402 failure of the symbol
C34_Witness ==
    \E s \in Symbols :
        /\ view = "chart"
        /\ selectedStock = s
        /\ InFlight(<<"quote", s>>) # {}
        /\ keyRef["quote"] = s
        /\ swrCache[<<"history", s>>].error # Undefined
        /\ swrCache[<<"history", s>>].error.name = "PaymentRequiredError"
        /\ StockChart(Here).shouldUseFallback

(***************************************************************************)
(* Claims on the retry policy and the retryable flags.                     *)
(***************************************************************************)
\* the first and only request of the page, for the key the hook still holds,
\* has been answered with a failure
FirstAttemptFailed(h, s) ==
    /\ sent = 1
    /\ requests = <<>>
    /\ answers[<<h, s>>] # {}
    /\ swrCache[<<h, s>>].error # Undefined

\* C35 as stated: with retryCount below maxRetries the policy schedules a
\* retry for exactly the errors shouldRetryError accepts, those without an
\* HTTP status included: after the failure of a first attempt a retry timer
\* of the key is pending if and only if shouldRetryError holds of the error.
C35_RetryIffRetryable ==
    \A h \in Hooks, s \in Symbols :
        FirstAttemptFailed(h, s)
            => (TimersOf(<<h, s>>) # {} <=> shouldRetryError(swrCache[<<h, s>>].error))

\* C36 as stated: for a response with a status of 400 or more, the retryable
\* flag of the error handleHttpError throws equals isRetryableError of the
\* status, the flag the user interface goes by.
C36_SameRetryability ==
    (output # NoOp /\ output.op = "throw" /\ input.response.status >= 400)
        => output.thrown.retryable = isRetryableError(input.response.status)

(***************************************************************************)
(* Claims on the historical transform (SpecHist).                          *)
(***************************************************************************)
HistoryKey == buildKey("stockHistory1Day", CacheSymbol)

\* the element lacks one of the fields a point needs
Incomplete(item) ==
    \/ item = Null
    \/ {"symbol", "date", "price"} \ DOMAIN item # {}

\* isHistoricalResponseArray accepted the body
Accepted == output.op = "return"

\* C37: an accepted body of n elements gives a series of n points, the i-th
\* with the symbol, date and price of the i-th element and its volume, 0 when
\* the element has none; the empty array is accepted; the series is returned
\* and stored as the success entry of the symbol.
C37_OneToOne ==
    (output # NoOp /\ input.data.t = "array")
        => LET items == input.data.items
               n == Len(items)
           IN  /\ n = 0 => Accepted
               /\ Accepted
                    => /\ Len(output.data.data) = n
                       /\ output.data.symbol = CacheSymbol
                       /\ \A i \in 1..n :
                             /\ DOMAIN output.data.data[i] \ {"volume"}
                                    = DOMAIN items[i] \ {"volume"}
                             /\ \A f \in {"symbol", "date", "price"} \cap DOMAIN items[i] :
                                   output.data.data[i][f] = items[i][f]
                             /\ output.data.data[i].volume
                                    = IF "volume" \in DOMAIN items[i]
                                      THEN items[i].volume ELSE 0
                       /\ HistoryKey \in DOMAIN storage
                       /\ storage[HistoryKey].data = output.data

\* a series of MaxRows points with different dates, one with a volume and one
\* without, has been returned and stored
C37_Witness ==
    /\ output # NoOp
    /\ Accepted
    /\ Len(output.data.data) = MaxRows
    /\ \A i \in 1..MaxRows : ~Incomplete(input.data.items[i])
    /\ output.data.data[1].date # output.data.data[MaxRows].date
    /\ \E i \in 1..MaxRows : "volume" \notin DOMAIN input.data.items[i]
    /\ \E i \in 1..MaxRows : output.data.data[i].volume = 5
    /\ storage[HistoryKey].data = output.data

\* C38 as stated: a body with an element that lacks the symbol, the date or
\* the price, at whatever position, is rejected with an error and nothing is
\* stored for it.
C38_EveryElementChecked ==
    (/\ output # NoOp
     /\ input.data.t = "array"
     /\ \E i \in 1..Len(input.data.items) : Incomplete(input.data.items[i]))
        => /\ output.op = "throw"
           /\ HistoryKey \notin DOMAIN storage

====
